---- MODULE Spec2Model ----
(***************************************************************************)
(* Call-lifecycle reconciliation and transcript extraction of the AI       *)
(* receptionist webhook service.                                           *)
(*                                                                         *)
(* Text is a sequence of one-character strings, so that the regular        *)
(* expressions and the digit stripping of the source are computed          *)
(* character by character.  Identifiers, statuses and URLs, which the code *)
(* only stores and compares, are plain strings.                            *)
(***************************************************************************)
EXTENDS Integers, Sequences, FiniteSets, TLC

\* JavaScript undefined and null, for plain values and for text values.
Undefined == "undefined"
Null == "null"
UndefinedText == <<"undefined">>
NullText == <<"null">>

\* JavaScript truthiness of a text value (undefined, null and '' are falsy).
Truthy(text) == text \notin {UndefinedText, NullText, <<>>}

\* a || b on text values
OrElse(a, b) == IF Truthy(a) THEN a ELSE b

Min(S) == CHOOSE x \in S : \A y \in S : x <= y
Max(S) == CHOOSE x \in S : \A y \in S : x >= y

----------------------------------------------------------------------------
(* Characters *)

Digit == {"0", "1", "2", "3", "4", "5", "6", "7", "8", "9"}
WhiteSpace == {" ", "\t", "\n"}
LowerLetters == <<"a","b","c","d","e","f","g","h","i","j","k","l","m","n","o","p","q","r","s","t","u","v","w","x","y","z">>
UpperLetters == <<"A","B","C","D","E","F","G","H","I","J","K","L","M","N","O","P","Q","R","S","T","U","V","W","X","Y","Z">>
Lower == {LowerLetters[i] : i \in 1..26}
Upper == {UpperLetters[i] : i \in 1..26}

IsDigit(c) == c \in Digit

\* String.prototype.toLowerCase / toUpperCase on one character
LowerChar(c) ==
    IF c \in Upper THEN LowerLetters[CHOOSE i \in 1..26 : UpperLetters[i] = c] ELSE c
UpperChar(c) ==
    IF c \in Lower THEN UpperLetters[CHOOSE i \in 1..26 : LowerLetters[i] = c] ELSE c

toLowerCase(s) == [i \in 1..Len(s) |-> LowerChar(s[i])]

\* s.replace(/\D/g, '')
StripNonDigits(s) == SelectSeq(s, IsDigit)

\* number of whitespace characters of s starting at position p
SpaceRun(s, p) ==
    Max({k \in 0..(Len(s) + 1 - p) : \A j \in p..(p + k - 1) : s[j] \in WhiteSpace})

\* s.replace(/\s+/g, ' ')
RECURSIVE CollapseWhitespace(_)
CollapseWhitespace(s) ==
    IF s = <<>> THEN <<>>
    ELSE IF s[1] \in WhiteSpace
         THEN <<" ">> \o CollapseWhitespace(SubSeq(s, SpaceRun(s, 1) + 1, Len(s)))
         ELSE <<s[1]>> \o CollapseWhitespace(Tail(s))

\* String.prototype.trim
Trim(s) ==
    LET keep == {i \in 1..Len(s) : s[i] \notin WhiteSpace}
    IN  IF keep = {} THEN <<>> ELSE SubSeq(s, Min(keep), Max(keep))

\* s.charAt(0).toUpperCase() + s.slice(1)
Capitalize(s) == IF s = <<>> THEN <<>> ELSE <<UpperChar(s[1])>> \o Tail(s)

\* s.split(' ').map(w => w.charAt(0).toUpperCase() + w.slice(1)).join(' ')
CapitalizeWords(s) ==
    [i \in 1..Len(s) |-> IF i = 1 \/ s[i - 1] = " " THEN UpperChar(s[i]) ELSE s[i]]

\* s.includes(sub)
Includes(s, sub) ==
    \E p \in 1..(Len(s) + 1 - Len(sub)) : SubSeq(s, p, p + Len(sub) - 1) = sub

\* s.split(' ').filter(word => word.length > 0)
RECURSIVE SplitWords(_)
SplitWords(s) ==
    IF s = <<>> THEN <<>>
    ELSE IF s[1] = " " THEN SplitWords(Tail(s))
    ELSE LET stops == {i \in 1..Len(s) : s[i] = " "}
             n == IF stops = {} THEN Len(s) ELSE Min(stops) - 1
         IN  <<SubSeq(s, 1, n)>> \o SplitWords(SubSeq(s, n + 1, Len(s)))

\* words.join(' ')
RECURSIVE JoinWords(_)
JoinWords(words) ==
    IF words = <<>> THEN <<>>
    ELSE IF Len(words) = 1 THEN words[1]
    ELSE words[1] \o <<" ">> \o JoinWords(Tail(words))

----------------------------------------------------------------------------
(* Canonical phone formatting *)

\* normalizePhoneNumber without the US country code for ten digits
normalizePhoneNumber_NoCountryCode(phoneNumber) ==
    IF ~Truthy(phoneNumber) THEN NullText
    ELSE <<"+">> \o StripNonDigits(phoneNumber)

\* webhookController.normalizePhoneNumber
normalizePhoneNumber(phoneNumber) ==
    IF ~Truthy(phoneNumber) THEN NullText
    ELSE LET cleaned == StripNonDigits(phoneNumber)
         IN  IF Len(cleaned) = 10 THEN <<"+","1">> \o cleaned
             ELSE IF Len(cleaned) = 11 /\ cleaned[1] = "1" THEN <<"+">> \o cleaned
             ELSE IF Len(cleaned) = 11 THEN <<"+">> \o cleaned
             ELSE <<"+">> \o cleaned

\* informationExtractor.formatPhoneNumber
formatPhoneNumber(phone) ==
    LET cleaned == StripNonDigits(phone)
    IN  IF Len(cleaned) = 10 THEN <<"+","1">> \o cleaned
        ELSE IF Len(cleaned) = 11 /\ cleaned[1] = "1" THEN <<"+">> \o cleaned
        ELSE IF Len(cleaned) = 11 THEN <<"+">> \o cleaned
        ELSE <<"+">> \o cleaned

----------------------------------------------------------------------------
(* Regular expressions of the extractor.  Every pattern of the source has  *)
(* the shape (?:alt1|alt2|..)\s+(CLASS+?)(?:terminators) or, for phone     *)
(* numbers, (?:alt1|..)\s*(CLASS+).  A match is found the way a            *)
(* backtracking engine finds it: leftmost start, first alternative,        *)
(* greedy separator, lazy (or greedy) capture.                             *)

NoMatch == <<"no match">>

MatchesAt(s, p, lit) ==
    /\ p >= 1
    /\ p + Len(lit) - 1 <= Len(s)
    /\ SubSeq(s, p, p + Len(lit) - 1) = lit

InClass(cls, c) == (c \in cls.chars) # cls.neg

\* [a-z\s] under the /i flag
LetterOrSpace == [neg |-> FALSE, chars |-> Lower \cup Upper \cup WhiteSpace]
\* [^.]
NotDot == [neg |-> TRUE, chars |-> {"."}]
\* [\d\s\-\(\)]
PhoneChars == [neg |-> FALSE, chars |-> Digit \cup WhiteSpace \cup {"-", "(", ")"}]

\* (?:\s|,|\.|$)
WordEnd ==
    [alts |-> {[ws |-> TRUE, lit |-> <<>>], [ws |-> FALSE, lit |-> <<",">>],
               [ws |-> FALSE, lit |-> <<".">>]},
     end |-> TRUE]
\* (?:\s+and|\s+but|\s+or|,|\.|$)
ClauseEnd ==
    [alts |-> {[ws |-> TRUE, lit |-> <<"a","n","d">>], [ws |-> TRUE, lit |-> <<"b","u","t">>],
               [ws |-> TRUE, lit |-> <<"o","r">>], [ws |-> FALSE, lit |-> <<",">>],
               [ws |-> FALSE, lit |-> <<".">>]},
     end |-> TRUE]

TermAt(s, q, terms) ==
    \/ terms.end /\ q = Len(s) + 1
    \/ \E t \in terms.alts :
          IF t.ws
          THEN /\ q <= Len(s)
               /\ SpaceRun(s, q) >= 1
               /\ (t.lit = <<>> \/ MatchesAt(s, q + SpaceRun(s, q), t.lit))
          ELSE MatchesAt(s, q, t.lit)

\* s.match(/(?:alts)\s{sepMin,}(cls+?)(?:terms)/i)[1], or NoMatch
LazyMatch(s, alts, sepMin, cls, terms) ==
    LET Cand(i, a, k, n) ==
            LET p == i + Len(alts[a]) + k
            IN  /\ MatchesAt(s, i, alts[a])
                /\ k >= sepMin
                /\ k <= SpaceRun(s, i + Len(alts[a]))
                /\ p + n - 1 <= Len(s)
                /\ \A j \in p..(p + n - 1) : InClass(cls, s[j])
                /\ TermAt(s, p + n, terms)
        Ks == 0..Len(s)
        Ns == 1..Len(s)
        starts == {i \in 1..Len(s) :
                     \E a \in DOMAIN alts :
                        /\ MatchesAt(s, i, alts[a])
                        /\ \E k \in Ks, n \in Ns : Cand(i, a, k, n)}
    IN  IF starts = {} THEN NoMatch
        ELSE LET i0 == Min(starts)
                 a0 == Min({a \in DOMAIN alts : \E k \in Ks, n \in Ns : Cand(i0, a, k, n)})
                 k0 == Max({k \in Ks : \E n \in Ns : Cand(i0, a0, k, n)})
                 n0 == Min({n \in Ns : Cand(i0, a0, k0, n)})
                 p0 == i0 + Len(alts[a0]) + k0
             IN  SubSeq(s, p0, p0 + n0 - 1)

\* s.match(/(?:alts)\s*(cls+)/i)[1], or NoMatch
GreedyMatch(s, alts, cls) ==
    LET Cand(i, a, k, n) ==
            LET p == i + Len(alts[a]) + k
            IN  /\ MatchesAt(s, i, alts[a])
                /\ k <= SpaceRun(s, i + Len(alts[a]))
                /\ p + n - 1 <= Len(s)
                /\ \A j \in p..(p + n - 1) : InClass(cls, s[j])
        Ks == 0..Len(s)
        Ns == 1..Len(s)
        starts == {i \in 1..Len(s) :
                     \E a \in DOMAIN alts :
                        /\ MatchesAt(s, i, alts[a])
                        /\ \E k \in Ks, n \in Ns : Cand(i, a, k, n)}
    IN  IF starts = {} THEN NoMatch
        ELSE LET i0 == Min(starts)
                 a0 == Min({a \in DOMAIN alts : \E k \in Ks, n \in Ns : Cand(i0, a, k, n)})
                 k0 == Max({k \in Ks : \E n \in Ns : Cand(i0, a0, k, n)})
                 n0 == Max({n \in Ns : Cand(i0, a0, k0, n)})
                 p0 == i0 + Len(alts[a0]) + k0
             IN  SubSeq(s, p0, p0 + n0 - 1)

----------------------------------------------------------------------------
(* Field extractors (applied to the lower-cased, whitespace-collapsed      *)
(* transcript)                                                             *)

namePatterns ==
    << <<<<"m","y"," ","n","a","m","e"," ","i","s">>, <<"i","'","m">>, <<"i"," ","a","m">>, <<"t","h","i","s"," ","i","s">>, <<"c","a","l","l"," ","m","e">>>>,
       <<<<"n","a","m","e"," ","i","s">>, <<"c","a","l","l"," ","m","e">>>>,
       <<<<"i","'","m">>, <<"i"," ","a","m">>>>,
       <<<<"m","y"," ","n","a","m","e"," ","i","s">>>> >>

NameStopWords == {<<"t","h","e">>, <<"a","n","d">>, <<"b","u","t">>, <<"f","o","r">>, <<"w","i","t","h">>, <<"i","s">>, <<"a">>}

extractName(transcript) ==
    LET confirmation == LazyMatch(transcript, <<<<"i","n","f","o","r","m","a","t","i","o","n",":">>>>, 1, LetterOrSpace, WordEnd)
        Hit(k) == LazyMatch(transcript, namePatterns[k], 1, LetterOrSpace, ClauseEnd)
        hits == {k \in DOMAIN namePatterns :
                    /\ Hit(k) # NoMatch
                    /\ Len(Trim(Hit(k))) > 2
                    /\ toLowerCase(Trim(Hit(k))) \notin NameStopWords}
        fallback == LazyMatch(transcript, <<<<"n","a","m","e">>>>, 1, NotDot, WordEnd)
    IN  IF confirmation # NoMatch /\ Len(Trim(confirmation)) > 2
        THEN Capitalize(Trim(confirmation))
        ELSE IF hits # {} THEN CapitalizeWords(Trim(Hit(Min(hits))))
        ELSE IF fallback # NoMatch /\ Len(Trim(fallback)) > 2
        THEN CapitalizeWords(Trim(fallback))
        ELSE NullText

phonePatterns ==
    << <<<<"m","y"," ","n","u","m","b","e","r"," ","i","s">>, <<"p","h","o","n","e"," ","n","u","m","b","e","r"," ","i","s">>, <<"c","a","l","l"," ","m","e"," ","a","t">>, <<"r","e","a","c","h"," ","m","e"," ","a","t">>, <<"m","y"," ","p","h","o","n","e"," ","i","s">>>>,
       <<<<"n","u","m","b","e","r"," ","i","s">>, <<"p","h","o","n","e"," ","i","s">>, <<"c","a","l","l"," ","m","e"," ","a","t">>>>,
       <<<<"i","t","'","s">>, <<"i","t"," ","i","s">>>> >>

\* extractPhoneNumber that accepts a capture of any length
extractPhoneNumber_AnyLength(transcript) ==
    LET Hit(k) == GreedyMatch(transcript, phonePatterns[k], PhoneChars)
        hits == {k \in DOMAIN phonePatterns : Hit(k) # NoMatch}
    IN  IF hits # {} THEN formatPhoneNumber(StripNonDigits(Hit(Min(hits))))
        ELSE NullText

extractPhoneNumber(transcript) ==
    LET Hit(k) == GreedyMatch(transcript, phonePatterns[k], PhoneChars)
        hits == {k \in DOMAIN phonePatterns :
                    /\ Hit(k) # NoMatch
                    /\ Len(StripNonDigits(Hit(k))) >= 7
                    /\ Len(StripNonDigits(Hit(k))) <= 15}
    IN  IF hits # {} THEN formatPhoneNumber(StripNonDigits(Hit(Min(hits))))
        ELSE NullText

addressPatterns ==
    << <<<<"i"," ","l","i","v","e"," ","a","t">>, <<"m","y"," ","a","d","d","r","e","s","s"," ","i","s">>, <<"l","o","c","a","t","e","d"," ","a","t">>, <<"a","d","d","r","e","s","s"," ","i","s">>>>,
       <<<<"l","i","v","e"," ","a","t">>>>,
       <<<<"a","d","d","r","e","s","s">>>>,
       <<<<"a","t">>>> >>

AddressStopWords == {<<"t","h","e">>, <<"a","n","d">>, <<"b","u","t">>, <<"f","o","r">>, <<"w","i","t","h">>}

streetWords ==
    <<<<"s","t","r","e","e","t">>, <<"a","v","e","n","u","e">>, <<"r","o","a","d">>, <<"d","r","i","v","e">>, <<"l","a","n","e">>, <<"w","a","y">>, <<"b","l","v","d">>,
      <<"s","t">>, <<"a","v","e">>, <<"r","d">>, <<"d","r">>, <<"l","n">>, <<"b","l","v","d">>>>

extractAddress(transcript) ==
    LET Hit(k) == LazyMatch(transcript, addressPatterns[k], 1, NotDot, WordEnd)
        hits == {k \in DOMAIN addressPatterns :
                    /\ Hit(k) # NoMatch
                    /\ Len(Trim(Hit(k))) > 5
                    /\ toLowerCase(Trim(Hit(k))) \notin AddressStopWords}
        confirmation == LazyMatch(transcript, <<<<"a","d","d","r","e","s","s">>>>, 1, NotDot, WordEnd)
        street == LazyMatch(transcript, streetWords, 1, NotDot, WordEnd)
    IN  IF hits # {} THEN Capitalize(Trim(Hit(Min(hits))))
        ELSE IF confirmation # NoMatch /\ Len(Trim(confirmation)) > 5
        THEN Capitalize(Trim(confirmation))
        ELSE IF street # NoMatch /\ Len(Trim(street)) > 5
        THEN Capitalize(Trim(street))
        ELSE NullText

servicePatterns ==
    << <<<<"c","a","l","l","i","n","g"," ","a","b","o","u","t">>, <<"n","e","e","d"," ","h","e","l","p"," ","w","i","t","h">>, <<"r","e","a","s","o","n"," ","f","o","r"," ","c","a","l","l","i","n","g">>, <<"i"," ","n","e","e","d">>,
         <<"l","o","o","k","i","n","g"," ","f","o","r">>, <<"w","a","n","t"," ","t","o">>>>,
       <<<<"n","e","e","d">>, <<"w","a","n","t">>, <<"h","e","l","p"," ","w","i","t","h">>>>,
       <<<<"b","e","c","a","u","s","e">>, <<"s","i","n","c","e">>>>,
       <<<<"a","b","o","u","t">>, <<"r","e","g","a","r","d","i","n","g">>>>,
       <<<<"s","c","h","e","d","u","l","e">>, <<"b","o","o","k">>, <<"a","p","p","o","i","n","t","m","e","n","t">>>> >>

businessServices ==
    <<<<"p","l","u","m","b","i","n","g">>, <<"h","v","a","c">>, <<"e","l","e","c","t","r","i","c","a","l">>, <<"t","r","e","e"," ","r","e","m","o","v","a","l">>, <<"l","a","n","d","s","c","a","p","i","n","g">>,
      <<"c","l","e","a","n","i","n","g">>, <<"r","e","p","a","i","r">>, <<"m","a","i","n","t","e","n","a","n","c","e">>, <<"i","n","s","t","a","l","l","a","t","i","o","n">>, <<"i","n","s","p","e","c","t","i","o","n">>>>

\* extractReason that looks for an intent phrase before the emergency words
extractReason_IntentFirst(transcript) ==
    LET Hit(k) == LazyMatch(transcript, servicePatterns[k], 0, NotDot, WordEnd)
        hits == {k \in DOMAIN servicePatterns :
                    Hit(k) # NoMatch /\ Len(Trim(Hit(k))) > 3}
    IN  IF hits # {} THEN Capitalize(Trim(Hit(Min(hits))))
        ELSE IF \/ Includes(transcript, <<"e","m","e","r","g","e","n","c","y">>)
                \/ Includes(transcript, <<"u","r","g","e","n","t">>)
                \/ Includes(transcript, <<"s","t","o","r","m">>)
        THEN IF \/ Includes(transcript, <<"p","l","u","m","b","i","n","g">>)
                \/ Includes(transcript, <<"s","i","n","k">>)
                \/ Includes(transcript, <<"w","a","t","e","r">>)
             THEN <<"E","m","e","r","g","e","n","c","y"," ","p","l","u","m","b","i","n","g"," ","s","e","r","v","i","c","e">>
             ELSE IF Includes(transcript, <<"t","r","e","e">>) \/ Includes(transcript, <<"b","r","a","n","c","h">>)
             THEN <<"E","m","e","r","g","e","n","c","y"," ","t","r","e","e"," ","r","e","m","o","v","a","l">>
             ELSE IF Includes(transcript, <<"e","l","e","c","t","r","i","c","a","l">>) \/ Includes(transcript, <<"p","o","w","e","r">>)
             THEN <<"E","m","e","r","g","e","n","c","y"," ","e","l","e","c","t","r","i","c","a","l"," ","s","e","r","v","i","c","e">>
             ELSE <<"E","m","e","r","g","e","n","c","y"," ","s","e","r","v","i","c","e"," ","r","e","q","u","e","s","t">>
        ELSE NullText

extractReason(transcript) ==
    LET Hit(k) == LazyMatch(transcript, servicePatterns[k], 0, NotDot, WordEnd)
        hits == {k \in DOMAIN servicePatterns :
                    Hit(k) # NoMatch /\ Len(Trim(Hit(k))) > 3}
        services == {k \in DOMAIN businessServices : Includes(transcript, businessServices[k])}
        service == Capitalize(businessServices[Min(services)])
        confirmation == LazyMatch(transcript, <<<<"r","e","a","s","o","n">>, <<"n","e","e","d">>>>, 1, NotDot, WordEnd)
    IN  IF \/ Includes(transcript, <<"e","m","e","r","g","e","n","c","y">>)
           \/ Includes(transcript, <<"u","r","g","e","n","t">>)
           \/ Includes(transcript, <<"s","t","o","r","m">>)
        THEN IF \/ Includes(transcript, <<"p","l","u","m","b","i","n","g">>)
                \/ Includes(transcript, <<"s","i","n","k">>)
                \/ Includes(transcript, <<"w","a","t","e","r">>)
             THEN <<"E","m","e","r","g","e","n","c","y"," ","p","l","u","m","b","i","n","g"," ","s","e","r","v","i","c","e">>
             ELSE IF Includes(transcript, <<"t","r","e","e">>) \/ Includes(transcript, <<"b","r","a","n","c","h">>)
             THEN <<"E","m","e","r","g","e","n","c","y"," ","t","r","e","e"," ","r","e","m","o","v","a","l">>
             ELSE IF Includes(transcript, <<"e","l","e","c","t","r","i","c","a","l">>) \/ Includes(transcript, <<"p","o","w","e","r">>)
             THEN <<"E","m","e","r","g","e","n","c","y"," ","e","l","e","c","t","r","i","c","a","l"," ","s","e","r","v","i","c","e">>
             ELSE <<"E","m","e","r","g","e","n","c","y"," ","s","e","r","v","i","c","e"," ","r","e","q","u","e","s","t">>
        ELSE IF hits # {} THEN Capitalize(Trim(Hit(Min(hits))))
        ELSE IF services # {}
        THEN IF Includes(transcript, <<"m","a","i","n","t","e","n","a","n","c","e">>) \/ Includes(transcript, <<"r","o","u","t","i","n","e">>)
             THEN service \o <<" ","m","a","i","n","t","e","n","a","n","c","e">>
             ELSE IF Includes(transcript, <<"r","e","p","a","i","r">>) \/ Includes(transcript, <<"f","i","x">>)
             THEN service \o <<" ","r","e","p","a","i","r">>
             ELSE IF Includes(transcript, <<"i","n","s","t","a","l","l","a","t","i","o","n">>) \/ Includes(transcript, <<"i","n","s","t","a","l","l">>)
             THEN service \o <<" ","i","n","s","t","a","l","l","a","t","i","o","n">>
             ELSE service \o <<" ","s","e","r","v","i","c","e">>
        ELSE IF confirmation # NoMatch /\ Len(Trim(confirmation)) > 3
        THEN Capitalize(Trim(confirmation))
        ELSE NullText

\* the number of words a summary keeps
SummaryWords == 10

\* createCallSummary that cuts the text but appends no ellipsis
createCallSummary_NoEllipsis(reason) ==
    IF ~Truthy(reason) THEN <<"C","u","s","t","o","m","e","r"," ","i","n","q","u","i","r","y">>
    ELSE LET words == SplitWords(reason)
         IN  IF Len(words) <= SummaryWords THEN reason
             ELSE JoinWords(SubSeq(words, 1, SummaryWords))

createCallSummary(reason) ==
    IF ~Truthy(reason) THEN <<"C","u","s","t","o","m","e","r"," ","i","n","q","u","i","r","y">>
    ELSE LET words == SplitWords(reason)
         IN  IF Len(words) <= SummaryWords THEN reason
             ELSE JoinWords(SubSeq(words, 1, SummaryWords)) \o <<".",".",".">>

\* a truthy value that is not a string (an object or array in the payload)
ObjectValue == <<"object">>

IsString(text) == text \notin {UndefinedText, NullText, ObjectValue}

\* let extractedInfo = {}
EmptyInfo ==
    [name |-> UndefinedText, callback_number |-> UndefinedText, address |-> UndefinedText,
     reason |-> UndefinedText, call_summary |-> UndefinedText]

\* extractCallInformation without the guard on its argument
extractCallInformation_NoGuard(transcript) ==
    LET cleanTranscript == CollapseWhitespace(toLowerCase(transcript))
        reason == extractReason(cleanTranscript)
    IN  [name |-> extractName(cleanTranscript),
         callback_number |-> extractPhoneNumber(cleanTranscript),
         address |-> extractAddress(cleanTranscript),
         reason |-> reason,
         call_summary |-> createCallSummary(reason)]

extractCallInformation(transcript) ==
    IF ~Truthy(transcript) \/ ~IsString(transcript)
    THEN [name |-> NullText, callback_number |-> NullText, address |-> NullText,
          reason |-> NullText, call_summary |-> NullText]
    ELSE LET cleanTranscript == CollapseWhitespace(toLowerCase(transcript))
             reason == extractReason(cleanTranscript)
         IN  [name |-> extractName(cleanTranscript),
              callback_number |-> extractPhoneNumber(cleanTranscript),
              address |-> extractAddress(cleanTranscript),
              reason |-> reason,
              call_summary |-> createCallSummary(reason)]

\* 0.25, the weight of one field of the score, in hundredths
FieldWeight == 25

\* calculateConfidence that scores call_summary as a fifth field
calculateConfidence_CountsSummary(extractedInfo, transcript) ==
    LET name == IF Truthy(extractedInfo.name) THEN FieldWeight ELSE 0
        callback_number == IF Truthy(extractedInfo.callback_number) THEN FieldWeight ELSE 0
        address == IF Truthy(extractedInfo.address) THEN FieldWeight ELSE 0
        reason == IF Truthy(extractedInfo.reason) THEN FieldWeight ELSE 0
        call_summary == IF Truthy(extractedInfo.call_summary) THEN FieldWeight ELSE 0
    IN  0 + name + callback_number + address + reason + call_summary

\* the score in hundredths: the sums of 0.25 are exact in floating point
calculateConfidence(extractedInfo, transcript) ==
    LET name == IF Truthy(extractedInfo.name) THEN FieldWeight ELSE 0
        callback_number == IF Truthy(extractedInfo.callback_number) THEN FieldWeight ELSE 0
        address == IF Truthy(extractedInfo.address) THEN FieldWeight ELSE 0
        reason == IF Truthy(extractedInfo.reason) THEN FieldWeight ELSE 0
    IN  0 + name + callback_number + address + reason
----------------------------------------------------------------------------
(* Bounds of the model *)

\* webhook deliveries accepted in one behaviour; all of them may be in
\* progress at the same time
MaxDeliveries == 2

----------------------------------------------------------------------------
(* Inbound events *)

CallIds == {"c1", "c2"}

TranscriptA == <<"I"," ","a","m"," ","B","o","b",","," ","f","i","x"," ","H","V","A","C">>
TranscriptB == <<"h","i">>

\* the to_number of an event, in two written forms of two registered numbers
ToNumbers == {<<"+","1","5","5","5","0","0","0","0","0","0","1">>, <<"5","5","5","-","0","0","0","-","0","0","0","2">>}

\* what an event carries besides its identity: nothing, a transcript with
\* recording and duration, or a short note in transcript_text
NoPayload ==
    [transcript |-> UndefinedText, transcript_text |-> UndefinedText,
     recording_url |-> Undefined, call_duration |-> 0]
FullPayload ==
    [transcript |-> TranscriptA, transcript_text |-> UndefinedText,
     recording_url |-> "https://recordings.retellai.com/1.mp3", call_duration |-> 60]
NotePayload ==
    [transcript |-> UndefinedText, transcript_text |-> TranscriptB,
     recording_url |-> Undefined, call_duration |-> 0]

\* event_type, call_status and payload of the events the model delivers; the
\* router lets event_type and call_status through when absent or valid
Shapes ==
    {[event_type |-> "call_started", call_status |-> Undefined, payload |-> NoPayload],
     [event_type |-> "call_ended", call_status |-> Undefined, payload |-> NoPayload],
     [event_type |-> "call_analyzed", call_status |-> Undefined, payload |-> NoPayload],
     [event_type |-> "call_analyzed", call_status |-> Undefined, payload |-> FullPayload],
     [event_type |-> "call_analyzed", call_status |-> Undefined, payload |-> NotePayload],
     [event_type |-> Undefined, call_status |-> "completed", payload |-> NoPayload],
     [event_type |-> Undefined, call_status |-> "completed", payload |-> FullPayload],
     [event_type |-> Undefined, call_status |-> "failed", payload |-> FullPayload],
     [event_type |-> Undefined, call_status |-> "in-progress", payload |-> NoPayload]}

Events ==
    {[call_id |-> c, event_type |-> k.event_type, call_status |-> k.call_status,
      to_number |-> n, from_number |-> "+15559990000",
      transcript |-> k.payload.transcript,
      transcript_text |-> k.payload.transcript_text,
      conversation |-> UndefinedText, call_summary |-> UndefinedText,
      summary |-> UndefinedText,
      recording_url |-> k.payload.recording_url,
      call_duration |-> k.payload.call_duration] :
        c \in CallIds, k \in Shapes, n \in ToNumbers}

\* TranscriptText with the fields in the opposite order
TranscriptText_SummaryFirst(webhookData) ==
    OrElse(webhookData.summary,
      OrElse(webhookData.call_summary,
        OrElse(webhookData.conversation,
          OrElse(webhookData.transcript_text, webhookData.transcript))))

\* webhookData.transcript || webhookData.transcript_text || webhookData.conversation
\*   || webhookData.call_summary || webhookData.summary
TranscriptText(webhookData) ==
    OrElse(webhookData.transcript,
      OrElse(webhookData.transcript_text,
        OrElse(webhookData.conversation,
          OrElse(webhookData.call_summary, webhookData.summary))))

\* what the other three transcript-bearing fields of an event hold
ConversationText == <<"u","r","g","e","n","t",":"," ","t","r","e","e"," ","f","e","l","l">>
CallSummaryText == <<"n","e","e","d"," ","r","e","p","a","i","r">>
SummaryText == <<"s","i","n","k"," ","l","e","a","k">>

\* a field that is absent, empty or filled
FieldOf(text) == {UndefinedText, <<>>, text}

\* call_analyzed events of one call with any of the five transcript-bearing
\* fields absent, empty or filled
TextEvents ==
    {[call_id |-> "c1", event_type |-> "call_analyzed", call_status |-> Undefined,
      to_number |-> <<"+","1","5","5","5","0","0","0","0","0","0","1">>, from_number |-> "+15559990000",
      transcript |-> transcript, transcript_text |-> transcript_text,
      conversation |-> conversation, call_summary |-> call_summary,
      summary |-> summary,
      recording_url |-> Undefined, call_duration |-> 0] :
        transcript \in FieldOf(TranscriptA), transcript_text \in FieldOf(TranscriptB),
        conversation \in FieldOf(ConversationText),
        call_summary \in FieldOf(CallSummaryText), summary \in FieldOf(SummaryText)}

\* extractCallInformation on every text an event of the model can carry
ExtractedInfoOf ==
    [text \in {TranscriptText(e) : e \in Events \cup TextEvents}
        |-> extractCallInformation(text)]

----------------------------------------------------------------------------
(* State *)

VARIABLES
    businesses,         \* table businesses: a set of rows
    calls,              \* table calls: a sequence of rows
    call_analytics,     \* table call_analytics: a sequence of rows
    notification_logs,  \* table notification_logs: a sequence of rows
    tasks,              \* the webhook requests received, in order of arrival,
                        \* each with its progress and its outcome
    delivered,          \* number of webhooks accepted so far
    probe               \* a function of the extraction engine under evaluation:
                        \* its name, its argument and its result

vars == <<businesses, calls, call_analytics, notification_logs, tasks, delivered, probe>>

Slots == DOMAIN tasks

\* new Date().toISOString().split('T')[0]
Today == "2025-01-15"

NoBusiness == [id |-> Null]
NoCall == [id |-> Null]
NoAnalytics == [id |-> 0]
NoResult == [success |-> FALSE, status |-> Null]
NoEvent == [call_id |-> Null, event_type |-> Null, call_status |-> Null]

\* no function of the extraction engine is under evaluation
NoProbe == [fn |-> "none"]

IdleTask ==
    [pc |-> "idle", ev |-> NoEvent, business |-> NoBusiness,
     extractedInfo |-> EmptyInfo, callStatus |-> Undefined,
     existingCall |-> Null, callRecord |-> NoCall,
     sms |-> NoResult, slack |-> NoResult, overall |-> FALSE, dispatched |-> 0,
     attempts |-> <<>>, errors |-> <<>>,
     existingAnalytics |-> NoAnalytics, error |-> Null, logged |-> FALSE]

Init ==
    /\ businesses =
          {[id |-> "b1", phone_number |-> <<"+","1","5","5","5","0","0","0","0","0","0","1">>, is_active |-> TRUE,
            slack_webhook_url |-> "https://hooks.slack.com/b1"],
           [id |-> "b2", phone_number |-> <<"+","1","5","5","5","0","0","0","0","0","0","2">>, is_active |-> TRUE,
            slack_webhook_url |-> Null]}
    /\ calls = <<>>
    /\ call_analytics = <<>>
    /\ notification_logs = <<>>
    /\ tasks = [t \in 1..MaxDeliveries |-> IdleTask]
    /\ delivered = 0
    /\ probe = NoProbe

----------------------------------------------------------------------------
(* Record store *)

\* rows of a table that satisfy a filter
Rows(table, Match(_)) == {i \in DOMAIN table : Match(table[i])}

\* the lookup without its is_active filter
findBusinessByPhoneNumber_AnyStatus(phoneNumber) ==
    LET normalizedPhone == normalizePhoneNumber(phoneNumber)
        data == {b \in businesses : b.phone_number = normalizedPhone}
    IN  IF Cardinality(data) = 1 THEN CHOOSE b \in data : TRUE ELSE NoBusiness

\* supabase.from('businesses').select('*').eq('phone_number', ..).eq('is_active', true).single()
findBusinessByPhoneNumber(phoneNumber) ==
    LET normalizedPhone == normalizePhoneNumber(phoneNumber)
        data == {b \in businesses : b.phone_number = normalizedPhone /\ b.is_active}
    IN  IF Cardinality(data) = 1 THEN CHOOSE b \in data : TRUE ELSE NoBusiness

\* Retell AI pricing of $0.091 per minute, in units of $0.0001 (DECIMAL(10,4))
CostPerMinute == 910
Cost(call_duration) == (call_duration * CostPerMinute + 30) \div 60

\* const callData = {...} of createOrUpdateCall
CallData(webhookData, businessId, extractedInfo, callStatus) ==
    [business_id |-> businessId,
     caller_name |-> extractedInfo.name,
     callback_number |-> extractedInfo.callback_number,
     address |-> extractedInfo.address,
     reason |-> extractedInfo.reason,
     call_summary |-> extractedInfo.call_summary,
     recording_url |-> webhookData.recording_url,
     transcript_text |-> TranscriptText(webhookData),
     duration |-> IF webhookData.call_duration # 0 THEN webhookData.call_duration ELSE 0,
     call_status |-> callStatus,
     from_number |-> webhookData.from_number,
     to_number |-> webhookData.to_number,
     cost |-> IF webhookData.call_duration # 0 THEN Cost(webhookData.call_duration) ELSE 0]

\* a key whose value is undefined is not sent to the store
Sent(old, new) == IF new = Undefined THEN old ELSE new
SentText(old, new) == IF new = UndefinedText THEN old ELSE new

\* an update that adds the duration it is sent to the stored one
UpdatedCall_AddsDuration(row, callData) ==
    [row EXCEPT
       !.business_id = Sent(@, callData.business_id),
       !.caller_name = SentText(@, callData.caller_name),
       !.callback_number = SentText(@, callData.callback_number),
       !.address = SentText(@, callData.address),
       !.reason = SentText(@, callData.reason),
       !.call_summary = SentText(@, callData.call_summary),
       !.recording_url = Sent(@, callData.recording_url),
       !.transcript_text = SentText(@, callData.transcript_text),
       !.duration = @ + callData.duration,
       !.call_status = Sent(@, callData.call_status),
       !.from_number = Sent(@, callData.from_number),
       !.to_number = SentText(@, callData.to_number),
       !.cost = callData.cost]

\* .update(callData) on one row: the columns that were sent are overwritten
UpdatedCall(row, callData) ==
    [row EXCEPT
       !.business_id = Sent(@, callData.business_id),
       !.caller_name = SentText(@, callData.caller_name),
       !.callback_number = SentText(@, callData.callback_number),
       !.address = SentText(@, callData.address),
       !.reason = SentText(@, callData.reason),
       !.call_summary = SentText(@, callData.call_summary),
       !.recording_url = Sent(@, callData.recording_url),
       !.transcript_text = SentText(@, callData.transcript_text),
       !.duration = callData.duration,
       !.call_status = Sent(@, callData.call_status),
       !.from_number = Sent(@, callData.from_number),
       !.to_number = SentText(@, callData.to_number),
       !.cost = callData.cost]

\* a calls table whose call_status has no default
DefaultCall_NoStatusDefault(id) ==
    [id |-> id, business_id |-> Null, caller_name |-> NullText,
     callback_number |-> NullText, address |-> NullText, reason |-> NullText,
     call_summary |-> NullText, recording_url |-> Null, transcript_text |-> NullText,
     duration |-> 0, cost |-> 0, call_status |-> Null,
     notification_sent |-> FALSE, from_number |-> Null, to_number |-> NullText]

\* CREATE TABLE calls: the column defaults of a new row
DefaultCall(id) ==
    [id |-> id, business_id |-> Null, caller_name |-> NullText,
     callback_number |-> NullText, address |-> NullText, reason |-> NullText,
     call_summary |-> NullText, recording_url |-> Null, transcript_text |-> NullText,
     duration |-> 0, cost |-> 0, call_status |-> "completed",
     notification_sent |-> FALSE, from_number |-> Null, to_number |-> NullText]

\* .insert({id: webhookData.call_id, ...callData})
InsertedCall(id, callData) == UpdatedCall(DefaultCall(id), callData)

\* a calls table without its primary key
CallInsertAllowed_NoPrimaryKey(id) == TRUE

\* id UUID PRIMARY KEY of calls: an insert of an id that is present is rejected
CallInsertAllowed(id) == Rows(calls, LAMBDA r : r.id = id) = {}

----------------------------------------------------------------------------
(* Webhook processing: one action per step between two awaits *)

\* a catch that rethrows without logFailedWebhook
Failed_NotLogged(task, message) ==
    [task EXCEPT !.pc = "failed", !.error = message]

\* a catch that starts createOrUpdateCall again instead of throwing
Failed_TriesAgain(task, message) ==
    [task EXCEPT !.pc = "fetch", !.error = message]

\* catch of the handler and of handleRetellWebhook: logFailedWebhook, throw
Failed(task, message) ==
    [task EXCEPT !.pc = "failed", !.error = message, !.logged = TRUE]

\* POST /webhook/retell hands a validated body to handleRetellWebhook
Deliver(e) ==
    /\ delivered < Cardinality(Slots)
    /\ tasks' = [tasks EXCEPT ![delivered + 1] = [IdleTask EXCEPT !.pc = "resolve", !.ev = e]]
    /\ delivered' = delivered + 1
    /\ UNCHANGED <<businesses, calls, call_analytics, notification_logs, probe>>

\* handleCallStarted passing no status to createOrUpdateCall
HandlerStatus_StartedSendsNone(webhookData) ==
    CASE webhookData.event_type = "call_started" -> Undefined
      [] webhookData.event_type = "call_analyzed" -> "completed"
      [] OTHER -> webhookData.call_status

\* handleCallAnalyzed passing no status to createOrUpdateCall
HandlerStatus_AnalyzedSendsNone(webhookData) ==
    CASE webhookData.event_type = "call_started" -> "in-progress"
      [] webhookData.event_type = "call_analyzed" -> Undefined
      [] OTHER -> webhookData.call_status

\* handlers that pass the call_status of the event when it has one
HandlerStatus_PrefersCallStatus(webhookData) ==
    CASE webhookData.call_status # Undefined -> webhookData.call_status
      [] webhookData.event_type = "call_started" -> "in-progress"
      [] webhookData.event_type = "call_analyzed" -> "completed"
      [] OTHER -> webhookData.call_status

\* the callStatus argument a handler gives to createOrUpdateCall
HandlerStatus(webhookData) ==
    CASE webhookData.event_type = "call_started" -> "in-progress"
      [] webhookData.event_type = "call_analyzed" -> "completed"
      [] OTHER -> webhookData.call_status

\* handleLegacyWebhook extracting whatever the call_status
HandlerExtraction_IgnoresStatus(webhookData) ==
    CASE webhookData.event_type = "call_started" -> EmptyInfo
      [] webhookData.event_type = "call_ended" -> EmptyInfo
      [] OTHER ->
            IF Truthy(TranscriptText(webhookData))
            THEN ExtractedInfoOf[TranscriptText(webhookData)] ELSE EmptyInfo

\* the extraction a handler runs before it writes the record
HandlerExtraction(webhookData) ==
    CASE webhookData.event_type = "call_started" -> EmptyInfo
      [] webhookData.event_type = "call_ended" -> EmptyInfo
      [] webhookData.event_type = "call_analyzed" ->
            IF Truthy(TranscriptText(webhookData))
            THEN ExtractedInfoOf[TranscriptText(webhookData)] ELSE EmptyInfo
      [] OTHER ->
            IF webhookData.call_status = "completed" /\ Truthy(TranscriptText(webhookData))
            THEN ExtractedInfoOf[TranscriptText(webhookData)] ELSE EmptyInfo

\* handleRetellWebhook up to the first store access of the handler
FindBusiness(t) ==
    /\ tasks[t].pc = "resolve"
    /\ LET webhookData == tasks[t].ev
           business == findBusinessByPhoneNumber(webhookData.to_number)
       IN  tasks' = [tasks EXCEPT ![t] =
              IF business.id = Null
              THEN Failed(@, "Business not found for phone number")
              ELSE [@ EXCEPT
                      !.business = business,
                      !.extractedInfo = HandlerExtraction(webhookData),
                      !.callStatus = HandlerStatus(webhookData),
                      !.pc = IF webhookData.event_type = "call_ended"
                             THEN "status" ELSE "fetch"]]
    /\ UNCHANGED <<businesses, calls, call_analytics, notification_logs, delivered, probe>>

\* createOrUpdateCall: select('id').eq('id', call_id).single()
FetchCall(t) ==
    /\ tasks[t].pc = "fetch"
    /\ LET found == Rows(calls, LAMBDA r : r.id = tasks[t].ev.call_id)
       IN  tasks' = [tasks EXCEPT ![t] =
              [@ EXCEPT !.existingCall = IF Cardinality(found) = 1
                                         THEN tasks[t].ev.call_id ELSE Null,
                        !.pc = "write"]]
    /\ UNCHANGED <<businesses, calls, call_analytics, notification_logs, delivered, probe>>

\* handleCallAnalyzed notifying whether or not a call_summary was derived
AfterRecord_AlwaysNotifies(task) ==
    CASE task.ev.event_type = "call_started" -> "analytics_fetch"
      [] task.ev.event_type = "call_ended" -> "analytics_fetch"
      [] task.ev.event_type = "call_analyzed" -> "sms"
      [] OTHER ->
            IF task.ev.call_status = "completed" THEN "sms" ELSE "analytics_fetch"

\* where a handler goes once the record is written
AfterRecord(task) ==
    CASE task.ev.event_type = "call_started" -> "analytics_fetch"
      [] task.ev.event_type = "call_ended" -> "analytics_fetch"
      [] task.ev.event_type = "call_analyzed" ->
            IF Truthy(task.extractedInfo.call_summary) THEN "sms" ELSE "done"
      [] OTHER ->
            IF task.ev.call_status = "completed" THEN "sms" ELSE "analytics_fetch"

\* createOrUpdateCall marking the stored record failed when its update is
\* rejected
WriteCall_MarksRecordFailed(t, storeOk) ==
    /\ tasks[t].pc = "write"
    /\ LET task == tasks[t]
           id == task.ev.call_id
           callData == CallData(task.ev, task.business.id, task.extractedInfo, task.callStatus)
           hit == Rows(calls, LAMBDA r : r.id = id)
       IN  IF task.existingCall # Null
           THEN IF storeOk /\ Cardinality(hit) = 1
                THEN /\ calls' = [i \in DOMAIN calls |->
                                    IF i \in hit THEN UpdatedCall(calls[i], callData)
                                    ELSE calls[i]]
                     /\ tasks' = [tasks EXCEPT ![t] =
                           [@ EXCEPT !.callRecord = UpdatedCall(calls[CHOOSE i \in hit : TRUE], callData),
                                     !.pc = AfterRecord(task)]]
                ELSE /\ calls' = [i \in DOMAIN calls |->
                                    IF i \in hit THEN [calls[i] EXCEPT !.call_status = "failed"]
                                    ELSE calls[i]]
                     /\ tasks' = [tasks EXCEPT ![t] = Failed(@, "Failed to update call")]
           ELSE IF storeOk /\ CallInsertAllowed(id)
                THEN /\ calls' = Append(calls, InsertedCall(id, callData))
                     /\ tasks' = [tasks EXCEPT ![t] =
                           [@ EXCEPT !.callRecord = InsertedCall(id, callData),
                                     !.pc = AfterRecord(task)]]
                ELSE /\ calls' = calls
                     /\ tasks' = [tasks EXCEPT ![t] = Failed(@, "Failed to create call")]
    /\ UNCHANGED <<businesses, call_analytics, notification_logs, delivered, probe>>

\* createOrUpdateCall: update of the existing row, or insert of a new one;
\* storeOk = FALSE is a store that rejects the statement
WriteCall(t, storeOk) ==
    /\ tasks[t].pc = "write"
    /\ LET task == tasks[t]
           id == task.ev.call_id
           callData == CallData(task.ev, task.business.id, task.extractedInfo, task.callStatus)
           hit == Rows(calls, LAMBDA r : r.id = id)
       IN  IF task.existingCall # Null
           THEN IF storeOk /\ Cardinality(hit) = 1
                THEN /\ calls' = [i \in DOMAIN calls |->
                                    IF i \in hit THEN UpdatedCall(calls[i], callData)
                                    ELSE calls[i]]
                     /\ tasks' = [tasks EXCEPT ![t] =
                           [@ EXCEPT !.callRecord = UpdatedCall(calls[CHOOSE i \in hit : TRUE], callData),
                                     !.pc = AfterRecord(task)]]
                ELSE /\ calls' = IF storeOk
                                 THEN [i \in DOMAIN calls |->
                                         IF i \in hit THEN UpdatedCall(calls[i], callData)
                                         ELSE calls[i]]
                                 ELSE calls
                     /\ tasks' = [tasks EXCEPT ![t] = Failed(@, "Failed to update call")]
           ELSE IF storeOk /\ CallInsertAllowed(id)
                THEN /\ calls' = Append(calls, InsertedCall(id, callData))
                     /\ tasks' = [tasks EXCEPT ![t] =
                           [@ EXCEPT !.callRecord = InsertedCall(id, callData),
                                     !.pc = AfterRecord(task)]]
                ELSE /\ calls' = calls
                     /\ tasks' = [tasks EXCEPT ![t] = Failed(@, "Failed to create call")]
    /\ UNCHANGED <<businesses, call_analytics, notification_logs, delivered, probe>>

\* updateCallStatus writing notification_sent: false along with the status
UpdateCallStatus_ClearsNotification(t, storeOk) ==
    /\ tasks[t].pc = "status"
    /\ LET task == tasks[t]
           hit == Rows(calls, LAMBDA r : r.id = task.ev.call_id)
           Updated(row) == [row EXCEPT !.call_status = "completed",
                                       !.notification_sent = FALSE]
       IN  IF storeOk /\ Cardinality(hit) = 1
           THEN /\ calls' = [i \in DOMAIN calls |->
                               IF i \in hit THEN Updated(calls[i]) ELSE calls[i]]
                /\ tasks' = [tasks EXCEPT ![t] =
                      [@ EXCEPT !.callRecord = Updated(calls[CHOOSE i \in hit : TRUE]),
                                !.pc = AfterRecord(task)]]
           ELSE /\ calls' = calls
                /\ tasks' = [tasks EXCEPT ![t] = Failed(@, "Failed to update call status")]
    /\ UNCHANGED <<businesses, call_analytics, notification_logs, delivered, probe>>

\* updateCallStatus(call_id, 'completed') of handleCallEnded
UpdateCallStatus(t, storeOk) ==
    /\ tasks[t].pc = "status"
    /\ LET task == tasks[t]
           hit == Rows(calls, LAMBDA r : r.id = task.ev.call_id)
           Updated(row) == [row EXCEPT !.call_status = "completed"]
       IN  IF storeOk /\ Cardinality(hit) = 1
           THEN /\ calls' = [i \in DOMAIN calls |->
                               IF i \in hit THEN Updated(calls[i]) ELSE calls[i]]
                /\ tasks' = [tasks EXCEPT ![t] =
                      [@ EXCEPT !.callRecord = Updated(calls[CHOOSE i \in hit : TRUE]),
                                !.pc = AfterRecord(task)]]
           ELSE /\ calls' = IF storeOk
                            THEN [i \in DOMAIN calls |->
                                    IF i \in hit THEN Updated(calls[i]) ELSE calls[i]]
                            ELSE calls
                /\ tasks' = [tasks EXCEPT ![t] = Failed(@, "Failed to update call status")]
    /\ UNCHANGED <<businesses, call_analytics, notification_logs, delivered, probe>>

\* logNotification: the insert into notification_logs, errors only logged
Logged(callId, type, status, storeOk) ==
    IF storeOk
    THEN Append(notification_logs,
                [call_id |-> callId, notification_type |-> type, status |-> status])
    ELSE notification_logs

\* overall success that looks at the SMS result only
OverallSuccess_IgnoresSlack(sms, slack) ==
    sms.success

\* results.overall.success of sendAllNotifications
OverallSuccess(sms, slack) ==
    sms.success /\ (slack.success \/ slack.status = "skipped")

\* overall errors with an entry for a Slack notification that was skipped
OverallErrors_CountsSkipped(sms, slack) ==
    (IF ~sms.success THEN <<"SMS">> ELSE <<>>)
        \o (IF ~slack.success THEN <<"Slack">> ELSE <<>>)

\* results.overall.errors of sendAllNotifications
OverallErrors(sms, slack) ==
    (IF ~sms.success THEN <<"SMS">> ELSE <<>>)
        \o (IF ~slack.success /\ slack.status # "skipped" THEN <<"Slack">> ELSE <<>>)

\* sendAllNotifications: sendSMSNotification, then sendSlackNotification up
\* to its HTTP request (or its return when no webhook URL is configured)
SendSMS(t, storeOk) ==
    /\ tasks[t].pc = "sms"
    /\ LET task == tasks[t]
           sms == [success |-> TRUE, status |-> "sent"]
           skipped == [success |-> FALSE, status |-> "skipped"]
       IN  /\ notification_logs' = Logged(task.callRecord.id, "sms", "sent", storeOk)
           /\ tasks' = [tasks EXCEPT ![t] =
                 IF task.business.slack_webhook_url = Null
                 THEN [@ EXCEPT !.dispatched = @ + 1, !.attempts = Append(@, "sms"),
                                !.sms = sms, !.slack = skipped,
                                !.overall = OverallSuccess(sms, skipped),
                                !.errors = OverallErrors(sms, skipped),
                                !.pc = "notification_status"]
                 ELSE [@ EXCEPT !.dispatched = @ + 1, !.attempts = Append(@, "sms"),
                                !.sms = sms, !.pc = "slack_post"]]
    /\ UNCHANGED <<businesses, calls, call_analytics, delivered, probe>>

\* axios.post(slack_webhook_url, message): answered with 200, or not
SlackPost(t, httpOk) ==
    /\ tasks[t].pc = "slack_post"
    /\ tasks' = [tasks EXCEPT ![t] =
          [@ EXCEPT !.slack = IF httpOk THEN [success |-> TRUE, status |-> "sent"]
                              ELSE [success |-> FALSE, status |-> "failed"],
                    !.pc = "slack_log"]]
    /\ UNCHANGED <<businesses, calls, call_analytics, notification_logs, delivered, probe>>

\* sendSlackNotification: logNotification of the outcome, then the rest of
\* sendAllNotifications
SlackLog(t, storeOk) ==
    /\ tasks[t].pc = "slack_log"
    /\ LET task == tasks[t]
       IN  /\ notification_logs' =
                 Logged(task.callRecord.id, "slack", task.slack.status, storeOk)
           /\ tasks' = [tasks EXCEPT ![t] =
                 [@ EXCEPT !.attempts = Append(@, "slack"),
                           !.overall = OverallSuccess(task.sms, task.slack),
                           !.errors = OverallErrors(task.sms, task.slack),
                           !.pc = "notification_status"]]
    /\ UNCHANGED <<businesses, calls, call_analytics, delivered, probe>>

\* updateCallNotificationStatus without the .eq('id', callId) filter
UpdateCallNotificationStatus_AllRows(t, storeOk) ==
    /\ tasks[t].pc = "notification_status"
    /\ LET task == tasks[t]
       IN  /\ calls' = IF storeOk
                       THEN [i \in DOMAIN calls |->
                               [calls[i] EXCEPT !.notification_sent = task.overall]]
                       ELSE calls
           /\ tasks' = [tasks EXCEPT ![t] =
                 [@ EXCEPT !.pc = IF task.ev.event_type = "call_analyzed"
                                  THEN "done" ELSE "analytics_fetch"]]
    /\ UNCHANGED <<businesses, call_analytics, notification_logs, delivered, probe>>

\* updateCallNotificationStatus(callRecord.id, overall.success): errors only logged
UpdateCallNotificationStatus(t, storeOk) ==
    /\ tasks[t].pc = "notification_status"
    /\ LET task == tasks[t]
       IN  /\ calls' = IF storeOk
                       THEN [i \in DOMAIN calls |->
                               IF calls[i].id = task.callRecord.id
                               THEN [calls[i] EXCEPT !.notification_sent = task.overall]
                               ELSE calls[i]]
                       ELSE calls
           /\ tasks' = [tasks EXCEPT ![t] =
                 [@ EXCEPT !.pc = IF task.ev.event_type = "call_analyzed"
                                  THEN "done" ELSE "analytics_fetch"]]
    /\ UNCHANGED <<businesses, call_analytics, notification_logs, delivered, probe>>

\* the eventType argument a handler gives to updateCallAnalytics
AnalyticsEventType(webhookData) ==
    CASE webhookData.event_type = "call_started" -> "started"
      [] webhookData.event_type = "call_ended" -> "completed"
      [] OTHER -> Undefined

\* updateCallAnalytics: select('*').eq('business_id', ..).eq('date', today).single()
FetchAnalytics(t) ==
    /\ tasks[t].pc = "analytics_fetch"
    /\ LET found == Rows(call_analytics,
                         LAMBDA r : r.business_id = tasks[t].business.id /\ r.date = Today)
       IN  tasks' = [tasks EXCEPT ![t] =
              [@ EXCEPT !.existingAnalytics = IF Cardinality(found) = 1
                                              THEN call_analytics[CHOOSE i \in found : TRUE]
                                              ELSE NoAnalytics,
                        !.pc = "analytics_write"]]
    /\ UNCHANGED <<businesses, calls, call_analytics, notification_logs, delivered, probe>>

\* updateCallAnalytics: the select answered with an error, which sends the
\* function to its insert branch
FetchAnalyticsRejected(t) ==
    /\ tasks[t].pc = "analytics_fetch"
    /\ tasks' = [tasks EXCEPT ![t] =
          [@ EXCEPT !.existingAnalytics = NoAnalytics, !.pc = "analytics_write"]]
    /\ UNCHANGED <<businesses, calls, call_analytics, notification_logs, delivered, probe>>

\* call_analytics without UNIQUE(business_id, date)
AnalyticsInsertAllowed_NoUnique(businessId, date) ==
    TRUE

\* UNIQUE(business_id, date) of call_analytics
AnalyticsInsertAllowed(businessId, date) ==
    Rows(call_analytics, LAMBDA r : r.business_id = businessId /\ r.date = date) = {}

\* updateCallAnalytics throwing when the store rejects its update or insert
WriteAnalytics_Throws(t, storeOk) ==
    /\ tasks[t].pc = "analytics_write"
    /\ call_analytics' = call_analytics
    /\ tasks' = [tasks EXCEPT ![t] =
          IF storeOk THEN [@ EXCEPT !.pc = "done"]
          ELSE Failed(@, "Failed to update call analytics")]
    /\ UNCHANGED <<businesses, calls, notification_logs, delivered, probe>>

\* updateCallAnalytics: update of the row read before, or insert of the
\* day's first row; errors only logged
WriteAnalytics(t, storeOk) ==
    /\ tasks[t].pc = "analytics_write"
    /\ LET task == tasks[t]
           existingAnalytics == task.existingAnalytics
           eventType == AnalyticsEventType(task.ev)
       IN  /\ call_analytics' =
                 IF existingAnalytics.id # 0
                 THEN IF storeOk
                      THEN [i \in DOMAIN call_analytics |->
                              IF call_analytics[i].id = existingAnalytics.id
                              THEN [call_analytics[i] EXCEPT
                                      !.total_calls = existingAnalytics.total_calls + 1,
                                      !.successful_notifications =
                                          IF eventType = "completed"
                                          THEN existingAnalytics.successful_notifications + 1
                                          ELSE @]
                              ELSE call_analytics[i]]
                      ELSE call_analytics
                 ELSE IF storeOk /\ AnalyticsInsertAllowed(task.business.id, Today)
                      THEN Append(call_analytics,
                                  [id |-> Len(call_analytics) + 1,
                                   business_id |-> task.business.id,
                                   date |-> Today,
                                   total_calls |-> 1,
                                   successful_notifications |->
                                       IF eventType = "completed" THEN 1 ELSE 0,
                                   failed_notifications |->
                                       IF eventType = "completed" THEN 0 ELSE 1])
                      ELSE call_analytics
           /\ tasks' = [tasks EXCEPT ![t] = [@ EXCEPT !.pc = "done"]]
    /\ UNCHANGED <<businesses, calls, notification_logs, delivered, probe>>

\* businessController.deactivateBusiness
DeactivateBusiness(businessId) ==
    /\ \E b \in businesses : b.id = businessId /\ b.is_active
    /\ businesses' = {IF b.id = businessId THEN [b EXCEPT !.is_active = FALSE] ELSE b :
                        b \in businesses}
    /\ UNCHANGED <<calls, call_analytics, notification_logs, tasks, delivered, probe>>

Next ==
    \/ \E e \in Events : Deliver(e)
    \/ \E t \in Slots : FindBusiness(t)
    \/ \E t \in Slots : FetchCall(t)
    \/ \E t \in Slots : WriteCall(t, TRUE)
    \/ \E t \in Slots : UpdateCallStatus(t, TRUE)
    \/ \E t \in Slots : SendSMS(t, TRUE)
    \/ \E t \in Slots, httpOk \in BOOLEAN : SlackPost(t, httpOk)
    \/ \E t \in Slots : SlackLog(t, TRUE)
    \/ \E t \in Slots : UpdateCallNotificationStatus(t, TRUE)
    \/ \E t \in Slots : FetchAnalytics(t)
    \/ \E t \in Slots : WriteAnalytics(t, TRUE)
    \/ \E b \in {"b1", "b2"} : DeactivateBusiness(b)

Spec == Init /\ [][Next]_vars


----------------------------------------------------------------------------
(* The same requests with a store that may reject any statement *)

NextFaults ==
    \/ \E e \in Events : Deliver(e)
    \/ \E t \in Slots : FindBusiness(t)
    \/ \E t \in Slots : FetchCall(t)
    \/ \E t \in Slots, storeOk \in BOOLEAN : WriteCall(t, storeOk)
    \/ \E t \in Slots, storeOk \in BOOLEAN : UpdateCallStatus(t, storeOk)
    \/ \E t \in Slots, storeOk \in BOOLEAN : SendSMS(t, storeOk)
    \/ \E t \in Slots, httpOk \in BOOLEAN : SlackPost(t, httpOk)
    \/ \E t \in Slots, storeOk \in BOOLEAN : SlackLog(t, storeOk)
    \/ \E t \in Slots, storeOk \in BOOLEAN : UpdateCallNotificationStatus(t, storeOk)
    \/ \E t \in Slots : FetchAnalytics(t)
    \/ \E t \in Slots, storeOk \in BOOLEAN : WriteAnalytics(t, storeOk)

SpecFaults == Init /\ [][NextFaults]_vars

----------------------------------------------------------------------------
(* A day of Started and Ended events of one call: more requests at the same
   time, no notification *)

\* requests accepted in one behaviour of SpecDaily
MaxDailyEvents == 4

DailyEvents ==
    {e \in Events :
        /\ e.call_id = "c1"
        /\ e.event_type \in {"call_started", "call_ended"}
        /\ e.to_number = <<"+","1","5","5","5","0","0","0","0","0","0","1">>}

InitDaily ==
    /\ businesses =
          {[id |-> "b1", phone_number |-> <<"+","1","5","5","5","0","0","0","0","0","0","1">>, is_active |-> TRUE,
            slack_webhook_url |-> "https://hooks.slack.com/b1"]}
    /\ calls = <<>>
    /\ call_analytics = <<>>
    /\ notification_logs = <<>>
    /\ tasks = [t \in 1..MaxDailyEvents |-> IdleTask]
    /\ delivered = 0
    /\ probe = NoProbe

NextDaily ==
    \/ \E e \in DailyEvents : Deliver(e)
    \/ \E t \in Slots : FindBusiness(t)
    \/ \E t \in Slots : FetchCall(t)
    \/ \E t \in Slots : WriteCall(t, TRUE)
    \/ \E t \in Slots : UpdateCallStatus(t, TRUE)
    \/ \E t \in Slots : FetchAnalytics(t)
    \/ \E t \in Slots : WriteAnalytics(t, TRUE)

SpecDaily == InitDaily /\ [][NextDaily]_vars

----------------------------------------------------------------------------
(* One call whose events arrive one after the other: a call_analyzed event
   with any transcript-bearing fields, alone or after the call_started event *)

\* requests accepted in one behaviour of SpecTexts
MaxTextEvents == 2

StartedEvent ==
    [call_id |-> "c1", event_type |-> "call_started", call_status |-> Undefined,
     to_number |-> <<"+","1","5","5","5","0","0","0","0","0","0","1">>, from_number |-> "+15559990000",
     transcript |-> UndefinedText, transcript_text |-> UndefinedText,
     conversation |-> UndefinedText, call_summary |-> UndefinedText,
     summary |-> UndefinedText,
     recording_url |-> Undefined, call_duration |-> 0]

InitTexts ==
    /\ businesses =
          {[id |-> "b1", phone_number |-> <<"+","1","5","5","5","0","0","0","0","0","0","1">>, is_active |-> TRUE,
            slack_webhook_url |-> "https://hooks.slack.com/b1"]}
    /\ calls = <<>>
    /\ call_analytics = <<>>
    /\ notification_logs = <<>>
    /\ tasks = [t \in 1..MaxTextEvents |-> IdleTask]
    /\ delivered = 0
    /\ probe = NoProbe

\* the next event arrives when the one before has been answered, and only
\* call_started is followed by another event
DeliverInTurn(e) ==
    /\ \A t \in Slots : tasks[t].pc \in {"idle", "done", "failed"}
    /\ delivered > 0 => /\ tasks[delivered].ev.event_type = "call_started"
                        /\ e.event_type = "call_analyzed"
    /\ Deliver(e)

NextTexts ==
    \/ \E e \in TextEvents \cup {StartedEvent} : DeliverInTurn(e)
    \/ \E t \in Slots : FindBusiness(t)
    \/ \E t \in Slots : FetchCall(t)
    \/ \E t \in Slots : WriteCall(t, TRUE)
    \/ \E t \in Slots : SendSMS(t, TRUE)
    \/ \E t \in Slots, httpOk \in BOOLEAN : SlackPost(t, httpOk)
    \/ \E t \in Slots : SlackLog(t, TRUE)
    \/ \E t \in Slots : UpdateCallNotificationStatus(t, TRUE)
    \/ \E t \in Slots : FetchAnalytics(t)
    \/ \E t \in Slots : WriteAnalytics(t, TRUE)

SpecTexts == InitTexts /\ [][NextTexts]_vars

----------------------------------------------------------------------------
(* The two phone formatters applied to written phone numbers *)

\* longest national number written, in digits
MaxDigits == 11

\* country prefixes written before the national number: none, US, UK
Leads == {<<>>, <<"1">>, <<"4","4">>}

NationalDigits == <<"5","5","5","1","2","3","4","5","6","7">>

\* lead followed by the first n digits of the national number
DigitRun(lead, n) ==
    lead \o [i \in 1..n |-> NationalDigits[((i - 1) % Len(NationalDigits)) + 1]]

\* the ways a number is written: '5551234567', '+15551234567',
\* '555-123-4567', '555 123 4567', '(555) 123-4567', '+1 (555) 123-4567'
Forms == {"plain", "plus", "dashes", "spaces", "parens", "plusparens"}

\* what the form writes before the digit at position i of n digits
Punctuation(form, i, n) ==
    LET left == n - i + 1
        group(sep) == IF i > 1 /\ left \in {4, 7, 10} THEN sep ELSE <<>>
        parens == IF n < 10 THEN group(<<"-">>)
                  ELSE IF left = 10 THEN (IF i > 1 THEN <<" ","(">> ELSE <<"(">>)
                  ELSE IF left = 7 THEN <<")"," ">>
                  ELSE IF left = 4 THEN <<"-">>
                  ELSE <<>>
    IN  CASE form = "plain" -> <<>>
          [] form = "plus" -> IF i = 1 THEN <<"+">> ELSE <<>>
          [] form = "dashes" -> group(<<"-">>)
          [] form = "spaces" -> group(<<" ">>)
          [] form = "parens" -> parens
          [] form = "plusparens" -> (IF i = 1 THEN <<"+">> ELSE <<>>) \o parens

RECURSIVE WrittenFrom(_, _, _)
WrittenFrom(form, digits, i) ==
    IF i > Len(digits) THEN <<>>
    ELSE Punctuation(form, i, Len(digits)) \o <<digits[i]>>
            \o WrittenFrom(form, digits, i + 1)

Written(form, digits) == WrittenFrom(form, digits, 1)

\* a string that is not a phone number at all
NotANumber == <<"n","/","a">>

\* not yet computed
Pending == <<"pending">>

PhoneProbes ==
    {[fn |-> "phone", digits |-> DigitRun(lead, n),
      arg |-> Written(form, DigitRun(lead, n)),
      formatted |-> Pending, normalized |-> Pending, renormalized |-> Pending] :
        lead \in Leads, n \in 0..MaxDigits, form \in Forms}
    \cup {[fn |-> "phone", digits |-> <<>>, arg |-> NotANumber,
           formatted |-> Pending, normalized |-> Pending, renormalized |-> Pending]}

InitPhone ==
    /\ businesses = {}
    /\ calls = <<>>
    /\ call_analytics = <<>>
    /\ notification_logs = <<>>
    /\ tasks = <<>>
    /\ delivered = 0
    /\ probe \in PhoneProbes

Stores == <<businesses, calls, call_analytics, notification_logs, tasks, delivered>>

\* informationExtractor.formatPhoneNumber(arg)
ApplyFormatPhoneNumber ==
    /\ probe.fn = "phone"
    /\ probe.formatted = Pending
    /\ probe' = [probe EXCEPT !.formatted = formatPhoneNumber(probe.arg)]
    /\ UNCHANGED Stores

\* webhookController.normalizePhoneNumber(arg)
ApplyNormalizePhoneNumber ==
    /\ probe.fn = "phone"
    /\ probe.normalized = Pending
    /\ probe' = [probe EXCEPT !.normalized = normalizePhoneNumber(probe.arg)]
    /\ UNCHANGED Stores

\* webhookController.normalizePhoneNumber applied to its own result
ApplyNormalizePhoneNumberAgain ==
    /\ probe.fn = "phone"
    /\ probe.normalized # Pending
    /\ probe.renormalized = Pending
    /\ probe' = [probe EXCEPT !.renormalized = normalizePhoneNumber(probe.normalized)]
    /\ UNCHANGED Stores

NextPhone ==
    \/ ApplyFormatPhoneNumber
    \/ ApplyNormalizePhoneNumber
    \/ ApplyNormalizePhoneNumberAgain

SpecPhone == InitPhone /\ [][NextPhone]_vars
----------------------------------------------------------------------------
(* The summary builder applied to reasons of some words *)

\* longest reason, in words
MaxWords == 15

Vocabulary ==
    <<<<"t","h","e">>, <<"k","i","t","c","h","e","n">>, <<"s","i","n","k">>, <<"i","s">>, <<"l","e","a","k","i","n","g">>, <<"w","a","t","e","r">>, <<"o","n","t","o">>,
      <<"f","l","o","o","r">>, <<"a","n","d">>, <<"w","a","l","l","s">>, <<"s","i","n","c","e">>, <<"l","a","s","t">>, <<"n","i","g","h","t">>, <<"p","l","e","a","s","e">>,
      <<"h","u","r","r","y">>, <<"n","o","w">>>>

\* the first n words of the vocabulary, repeated when n is larger
WordRun(n) == [i \in 1..n |-> Vocabulary[((i - 1) % Len(Vocabulary)) + 1]]

\* the words written one after the other with sep between two of them
RECURSIVE Spaced(_, _)
Spaced(words, sep) ==
    IF words = <<>> THEN <<>>
    ELSE IF Len(words) = 1 THEN words[1]
    ELSE words[1] \o sep \o Spaced(Tail(words), sep)

\* a reason is null or a text of at least one word, as extractReason
\* returns it; the words are a space or two apart, with or without spaces
\* around the text
SummaryProbes ==
    {[fn |-> "summary", words |-> <<>>, arg |-> NullText, result |-> Pending]}
    \cup {[fn |-> "summary", words |-> WordRun(n),
           arg |-> pad \o Spaced(WordRun(n), sep) \o pad, result |-> Pending] :
             n \in 1..MaxWords, sep \in {<<" ">>, <<" "," ">>}, pad \in {<<>>, <<" ">>}}

InitSummary ==
    /\ businesses = {}
    /\ calls = <<>>
    /\ call_analytics = <<>>
    /\ notification_logs = <<>>
    /\ tasks = <<>>
    /\ delivered = 0
    /\ probe \in SummaryProbes

\* informationExtractor.createCallSummary(arg)
ApplyCreateCallSummary ==
    /\ probe.fn = "summary"
    /\ probe.result = Pending
    /\ probe' = [probe EXCEPT !.result = createCallSummary(probe.arg)]
    /\ UNCHANGED Stores

NextSummary == ApplyCreateCallSummary

SpecSummary == InitSummary /\ [][NextSummary]_vars

----------------------------------------------------------------------------
(* The confidence scorer applied to extraction results *)

\* what a field of an extraction result may hold
FieldValues == {UndefinedText, NullText, <<>>, <<"B","o","b">>}

ConfidenceProbes ==
    {[fn |-> "confidence",
      arg |-> [name |-> name, callback_number |-> callback_number,
               address |-> address, reason |-> reason,
               call_summary |-> call_summary],
      transcript |-> transcript, result |-> -1] :
        name \in FieldValues, callback_number \in FieldValues,
        address \in FieldValues, reason \in FieldValues,
        call_summary \in {NullText, <<"C","u","s","t","o","m","e","r"," ","i","n","q","u","i","r","y">>},
        transcript \in {TranscriptA, TranscriptB}}

InitConfidence ==
    /\ businesses = {}
    /\ calls = <<>>
    /\ call_analytics = <<>>
    /\ notification_logs = <<>>
    /\ tasks = <<>>
    /\ delivered = 0
    /\ probe \in ConfidenceProbes

\* informationExtractor.calculateConfidence(arg, transcript)
ApplyCalculateConfidence ==
    /\ probe.fn = "confidence"
    /\ probe.result = -1
    /\ probe' = [probe EXCEPT !.result = calculateConfidence(probe.arg, probe.transcript)]
    /\ UNCHANGED Stores

NextConfidence == ApplyCalculateConfidence

SpecConfidence == InitConfidence /\ [][NextConfidence]_vars
----------------------------------------------------------------------------
(* The extraction engine applied to transcripts *)

\* the words that open the emergency branch of extractReason, and none
Triggers == {<<>>, <<"e","m","e","r","g","e","n","c","y">>, <<"u","r","g","e","n","t">>, <<"s","t","o","r","m">>}

\* the words that choose the emergency phrase, last choice first
SecondaryWords ==
    <<<<"p","o","w","e","r">>, <<"e","l","e","c","t","r","i","c","a","l">>, <<"b","r","a","n","c","h">>, <<"t","r","e","e">>, <<"w","a","t","e","r">>, <<"s","i","n","k">>, <<"p","l","u","m","b","i","n","g">>>>

\* most secondary words in one transcript
MaxSecondary == 3

\* what else a caller says: nothing, an intent phrase, a service with a
\* modifier, a reason clause
Remarks == {<<>>, <<"i"," ","n","e","e","d"," ","r","o","o","f","i","n","g"," ","h","e","l","p">>, <<"h","v","a","c"," ","r","e","p","a","i","r">>, <<"t","h","e"," ","r","e","a","s","o","n"," ","l","e","a","k","i","n","g">>}

\* the non-empty texts of a sequence of texts
NonEmpty(texts) == SelectSeq(texts, LAMBDA w : w # <<>>)

\* transcripts that name some secondary words, a trigger and a remark
EmergencyProbes ==
    {[fn |-> "extract", family |-> "emergency",
      parts |-> [trigger |-> trigger,
                 secondary |-> {SecondaryWords[i] : i \in chosen},
                 remark |-> remark],
      arg |-> Spaced(NonEmpty([i \in DOMAIN SecondaryWords |->
                                  IF i \in chosen THEN SecondaryWords[i] ELSE <<>>]
                              \o <<trigger, remark>>), <<" ">>),
      result |-> EmptyInfo] :
        trigger \in Triggers, remark \in Remarks,
        chosen \in {c \in SUBSET (DOMAIN SecondaryWords) : Cardinality(c) <= MaxSecondary}}

\* how many digits a caller dictates after a cue, 0 for a cue not said
RunLengths == {0, 3, 6, 7, 10, 11, 15, 16}

\* the digits dictated after the first cue and after "it's"
FirstRun(n) == DigitRun(<<>>, n)
SecondRun(n) == IF n = 0 THEN <<>> ELSE DigitRun(<<"9">>, n - 1)

\* transcripts that dictate a number after a cue of the first pattern and
\* another after "it's", the cue of the last pattern
PhoneTranscriptProbes ==
    {[fn |-> "extract", family |-> "phone",
      parts |-> [first |-> FirstRun(n1), second |-> SecondRun(n2)],
      arg |-> Spaced(NonEmpty(
                 <<IF n1 = 0 THEN <<>> ELSE cue \o <<" ">> \o Written(form, FirstRun(n1)),
                   IF n2 = 0 THEN <<>> ELSE <<"I","t","'","s"," ">> \o Written(form, SecondRun(n2))>>),
                 <<" ">>),
      result |-> EmptyInfo] :
        n1 \in RunLengths, n2 \in RunLengths, form \in {"plain", "dashes"},
        cue \in {<<"m","y"," ","n","u","m","b","e","r"," ","i","s">>, <<"C","a","l","l"," ","m","e"," ","a","t">>}}

\* what a caller says when nothing is asked for, and three words that are
\* cues of an extractor
PlainWords ==
    {<<"h","i">>, <<"T","h","a","n","k","s">>, <<"o","k",".">>, <<"b","y","e",",">>, <<"H","E","L","L","O">>, <<"t","h","a","t">>, <<"s","o","u","n","d","s">>,
     <<"a","d","d","r","e","s","s">>, <<"n","e","e","d">>, <<"h","v","a","c">>}

\* transcripts of one or two plain words, of white space only, and the
\* values that are no transcript: undefined, null, '', an object
PlainProbes ==
    {[fn |-> "extract", family |-> "plain", parts |-> [words |-> words],
      arg |-> Spaced(words, <<" ">>), result |-> EmptyInfo] :
        words \in {<<w>> : w \in PlainWords} \cup (PlainWords \X PlainWords)}
    \cup {[fn |-> "extract", family |-> "plain", parts |-> [words |-> <<>>],
            arg |-> arg, result |-> EmptyInfo] :
              arg \in {<<" ">>, <<"\n", " ">>, UndefinedText, NullText, <<>>, ObjectValue}}

InitExtract ==
    /\ businesses = {}
    /\ calls = <<>>
    /\ call_analytics = <<>>
    /\ notification_logs = <<>>
    /\ tasks = <<>>
    /\ delivered = 0
    /\ probe \in EmergencyProbes \cup PhoneTranscriptProbes \cup PlainProbes

\* informationExtractor.extractCallInformation(arg)
ApplyExtractCallInformation ==
    /\ probe.fn = "extract"
    /\ probe.result = EmptyInfo
    /\ probe' = [probe EXCEPT !.result = extractCallInformation(probe.arg)]
    /\ UNCHANGED Stores

NextExtract == ApplyExtractCallInformation

SpecExtract == InitExtract /\ [][NextExtract]_vars
----------------------------------------------------------------------------
(* POST /webhook/retell with bodies the validation chain may reject *)

\* the recording URLs of the model that isURL() accepts
URLs == {"https://recordings.retellai.com/1.mp3"}

\* .notEmpty() on a plain value and on a text value
NotEmpty(value) == value \notin {Undefined, Null, ""}
NotEmptyText(text) == text \notin {UndefinedText, NullText, <<>>}

\* .optional().isIn(values): an absent field passes
OptionalIn(value, values) == value = Undefined \/ value \in values

\* the validation chain of router.post('/retell')
ValidBody_StatusUnchecked(body) ==
    /\ NotEmpty(body.call_id)
    /\ NotEmptyText(body.to_number)
    /\ OptionalIn(body.event_type, {"call_started", "call_ended", "call_analyzed"})
    /\ body.transcript = UndefinedText \/ IsString(body.transcript)
    /\ OptionalIn(body.recording_url, URLs)
    /\ body.from_number = Undefined \/ body.from_number # Null

ValidBody(body) ==
    /\ NotEmpty(body.call_id)
    /\ NotEmptyText(body.to_number)
    /\ OptionalIn(body.event_type, {"call_started", "call_ended", "call_analyzed"})
    /\ OptionalIn(body.call_status, {"completed", "failed", "in-progress"})
    /\ body.transcript = UndefinedText \/ IsString(body.transcript)
    /\ OptionalIn(body.recording_url, URLs)
    /\ body.from_number = Undefined \/ body.from_number # Null

\* a body with call_id and to_number only: neither event_type nor call_status
BareEvent ==
    [call_id |-> "c1", event_type |-> Undefined, call_status |-> Undefined,
     to_number |-> <<"+","1","5","5","5","0","0","0","0","0","0","1">>, from_number |-> "+15559990000",
     transcript |-> UndefinedText, transcript_text |-> UndefinedText,
     conversation |-> UndefinedText, call_summary |-> UndefinedText,
     summary |-> UndefinedText,
     recording_url |-> Undefined, call_duration |-> 0]

\* bodies that carry an event_type and a call_status that says otherwise
TypedWithStatus ==
    {[BareEvent EXCEPT !.event_type = "call_started", !.call_status = "failed"],
     [BareEvent EXCEPT !.event_type = "call_ended", !.call_status = "in-progress"],
     [BareEvent EXCEPT !.event_type = "call_analyzed", !.call_status = "failed"]}

\* the events of call c1 to the first business
WellFormedBodies ==
    {e \in Events : e.call_id = "c1" /\ e.to_number = <<"+","1","5","5","5","0","0","0","0","0","0","1">>}
        \cup {BareEvent} \cup TypedWithStatus

\* a body with one field left out, emptied or given a value the chain refuses
Spoilt(body) ==
    {[body EXCEPT !.call_id = Undefined], [body EXCEPT !.call_id = ""],
     [body EXCEPT !.to_number = UndefinedText], [body EXCEPT !.to_number = <<>>],
     [body EXCEPT !.event_type = "call_transferred"],
     [body EXCEPT !.call_status = "invalid-status"],
     [body EXCEPT !.transcript = ObjectValue],
     [body EXCEPT !.recording_url = "recording 1"]}

Bodies == WellFormedBodies \cup UNION {Spoilt(body) : body \in WellFormedBodies}

\* router.post('/retell'): a body with validation errors is answered 400,
\* any other is handed to handleRetellWebhook
Receive(body) ==
    IF ValidBody(body) THEN Deliver(body)
    ELSE /\ delivered < Cardinality(Slots)
         /\ tasks' = [tasks EXCEPT ![delivered + 1] =
                         [IdleTask EXCEPT !.pc = "rejected", !.ev = body]]
         /\ delivered' = delivered + 1
         /\ UNCHANGED <<businesses, calls, call_analytics, notification_logs, probe>>

NextRouter ==
    \/ \E body \in Bodies : Receive(body)
    \/ \E t \in Slots : FindBusiness(t)
    \/ \E t \in Slots : FetchCall(t)
    \/ \E t \in Slots : WriteCall(t, TRUE)
    \/ \E t \in Slots : UpdateCallStatus(t, TRUE)
    \/ \E t \in Slots : SendSMS(t, TRUE)
    \/ \E t \in Slots, httpOk \in BOOLEAN : SlackPost(t, httpOk)
    \/ \E t \in Slots : SlackLog(t, TRUE)
    \/ \E t \in Slots : UpdateCallNotificationStatus(t, TRUE)
    \/ \E t \in Slots : FetchAnalytics(t)
    \/ \E t \in Slots : WriteAnalytics(t, TRUE)

InitRouter ==
    /\ businesses =
          {[id |-> "b1", phone_number |-> <<"+","1","5","5","5","0","0","0","0","0","0","1">>, is_active |-> TRUE,
            slack_webhook_url |-> "https://hooks.slack.com/b1"]}
    /\ calls = <<>>
    /\ call_analytics = <<>>
    /\ notification_logs = <<>>
    /\ tasks = [t \in 1..MaxDeliveries |-> IdleTask]
    /\ delivered = 0
    /\ probe = NoProbe

SpecRouter == InitRouter /\ [][NextRouter]_vars
----------------------------------------------------------------------------
(* Requests that are answered: every started step of a handler completes *)

\* the steps of the request in slot t, the store accepting every statement
HandlerStep(t) ==
    \/ FindBusiness(t)
    \/ FetchCall(t)
    \/ WriteCall(t, TRUE)
    \/ UpdateCallStatus(t, TRUE)
    \/ SendSMS(t, TRUE)
    \/ \E httpOk \in BOOLEAN : SlackPost(t, httpOk)
    \/ SlackLog(t, TRUE)
    \/ UpdateCallNotificationStatus(t, TRUE)
    \/ FetchAnalytics(t)
    \/ WriteAnalytics(t, TRUE)

\* the store and Slack answer every request made to them, and the event loop
\* resumes every handler whose await is settled
SpecOutcome ==
    /\ InitRouter
    /\ [][NextRouter]_vars
    /\ \A t \in 1..MaxDeliveries : WF_vars(HandlerStep(t))

\* the object a handler returns: success, call_id of the record, business_id
Result(task) ==
    [success |-> TRUE, call_id |-> task.callRecord.id, business_id |-> task.business.id]

\* the order of the awaits of a request, the two ends included
Position(pc) ==
    CASE pc = "idle" -> 0
      [] pc = "resolve" -> 1
      [] pc = "fetch" -> 2
      [] pc \in {"write", "status"} -> 3
      [] pc = "sms" -> 4
      [] pc = "slack_post" -> 5
      [] pc = "slack_log" -> 6
      [] pc = "notification_status" -> 7
      [] pc = "analytics_fetch" -> 8
      [] pc = "analytics_write" -> 9
      [] pc \in {"done", "failed", "rejected"} -> 10
----------------------------------------------------------------------------
(* One event that fails on the store and is delivered again *)

\* requests in one behaviour of SpecRedelivery: an earlier event of the call,
\* the event, and the event again
MaxRedeliveries == 3

\* the messages of the errors createOrUpdateCall and updateCallStatus throw
StoreErrors ==
    {"Failed to create call", "Failed to update call", "Failed to update call status"}

InitRedelivery ==
    /\ businesses =
          {[id |-> "b1", phone_number |-> <<"+","1","5","5","5","0","0","0","0","0","0","1">>, is_active |-> TRUE,
            slack_webhook_url |-> "https://hooks.slack.com/b1"]}
    /\ calls = <<>>
    /\ call_analytics = <<>>
    /\ notification_logs = <<>>
    /\ tasks = [t \in 1..MaxRedeliveries |-> IdleTask]
    /\ delivered = 0
    /\ probe = NoProbe

\* once the earlier event is answered the sender delivers the event, and
\* delivers it again when the answer was a store error; probe keeps the
\* calls table the event was first delivered on
Redeliver(e) ==
    /\ delivered \in 1..(Cardinality(Slots) - 1)
    /\ tasks[delivered].pc \in {"done", "failed"}
    /\ delivered > 1 => /\ tasks[delivered].pc = "failed"
                        /\ tasks[delivered].error \in StoreErrors
                        /\ e = tasks[delivered].ev
    /\ tasks' = [tasks EXCEPT ![delivered + 1] = [IdleTask EXCEPT !.pc = "resolve", !.ev = e]]
    /\ delivered' = delivered + 1
    /\ probe' = IF delivered = 1 THEN [fn |-> "calls", arg |-> calls] ELSE probe
    /\ UNCHANGED <<businesses, calls, call_analytics, notification_logs>>

\* the store may reject the record statement of the first delivery of the
\* event
NextRedelivery ==
    \/ \E e \in WellFormedBodies : delivered = 0 /\ Deliver(e)
    \/ \E e \in WellFormedBodies : Redeliver(e)
    \/ \E t \in Slots : FindBusiness(t)
    \/ \E t \in Slots : FetchCall(t)
    \/ \E t \in Slots, storeOk \in BOOLEAN : (t = 2 \/ storeOk) /\ WriteCall(t, storeOk)
    \/ \E t \in Slots, storeOk \in BOOLEAN : (t = 2 \/ storeOk) /\ UpdateCallStatus(t, storeOk)
    \/ \E t \in Slots : SendSMS(t, TRUE)
    \/ \E t \in Slots, httpOk \in BOOLEAN : SlackPost(t, httpOk)
    \/ \E t \in Slots : SlackLog(t, TRUE)
    \/ \E t \in Slots : UpdateCallNotificationStatus(t, TRUE)
    \/ \E t \in Slots : FetchAnalytics(t)
    \/ \E t \in Slots : WriteAnalytics(t, TRUE)

SpecRedelivery == InitRedelivery /\ [][NextRedelivery]_vars

\* the calls table one delivery of the event of a finished request leaves
\* when it runs alone on the table store and the store accepts every
\* statement, the channels answering as they answered the request
SingleDelivery(store, task) ==
    LET ev == task.ev
        hit == {i \in DOMAIN store : store[i].id = ev.call_id}
        callData == CallData(ev, task.business.id, HandlerExtraction(ev), HandlerStatus(ev))
        written ==
            IF ev.event_type = "call_ended"
            THEN [i \in DOMAIN store |->
                    IF i \in hit THEN [store[i] EXCEPT !.call_status = "completed"]
                    ELSE store[i]]
            ELSE IF hit # {}
                 THEN [i \in DOMAIN store |->
                         IF i \in hit THEN UpdatedCall(store[i], callData) ELSE store[i]]
                 ELSE Append(store, InsertedCall(ev.call_id, callData))
    IN  IF AfterRecord([task EXCEPT !.extractedInfo = HandlerExtraction(ev)]) = "sms"
        THEN [i \in DOMAIN written |->
                IF written[i].id = ev.call_id
                THEN [written[i] EXCEPT !.notification_sent = task.overall]
                ELSE written[i]]
        ELSE written
----------------------------------------------------------------------------
(* Events of one call with an analytics store that may reject any statement *)

NextAnalyticsFaults ==
    \/ \E e \in WellFormedBodies : Deliver(e)
    \/ \E t \in Slots : FindBusiness(t)
    \/ \E t \in Slots : FetchCall(t)
    \/ \E t \in Slots : WriteCall(t, TRUE)
    \/ \E t \in Slots : UpdateCallStatus(t, TRUE)
    \/ \E t \in Slots : SendSMS(t, TRUE)
    \/ \E t \in Slots, httpOk \in BOOLEAN : SlackPost(t, httpOk)
    \/ \E t \in Slots : SlackLog(t, TRUE)
    \/ \E t \in Slots : UpdateCallNotificationStatus(t, TRUE)
    \/ \E t \in Slots : FetchAnalytics(t)
    \/ \E t \in Slots : FetchAnalyticsRejected(t)
    \/ \E t \in Slots, storeOk \in BOOLEAN : WriteAnalytics(t, storeOk)

SpecAnalyticsFaults == InitRouter /\ [][NextAnalyticsFaults]_vars
----------------------------------------------------------------------------
(* retryNotification: concurrent retries of one notification log row *)

\* calls of retryNotification in one behaviour of SpecRetry
MaxRetryRequests == 4

\* max_retries INTEGER DEFAULT 3 of notification_logs
DefaultMaxRetries == 3

\* no row was read
NoNotification == [id |-> 0]

\* a call of retryNotification that has not started
IdleRetry ==
    [pc |-> "idle", notification |-> NoNotification, call |-> NoCall,
     business |-> NoBusiness, result |-> NoResult, error |-> Null]

\* the record of the call the notification is about
NotifiedCall ==
    InsertedCall("c1", CallData(BareEvent, "b1", EmptyInfo, "completed"))

\* a row of notification_logs as logNotification inserts it
LogRow(id, callId, type, status) ==
    [id |-> id, call_id |-> callId, notification_type |-> type, status |-> status,
     retry_count |-> 0, max_retries |-> DefaultMaxRetries]

\* a failed notification of either channel that has been retried any number
\* of times up to max_retries; probe keeps the row as it was
InitRetry ==
    /\ businesses =
          {[id |-> "b1", phone_number |-> <<"+","1","5","5","5","0","0","0","0","0","0","1">>, is_active |-> TRUE,
            slack_webhook_url |-> "https://hooks.slack.com/b1"]}
    /\ calls = <<NotifiedCall>>
    /\ call_analytics = <<>>
    /\ \E type \in {"sms", "slack"}, retries \in 0..DefaultMaxRetries :
          LET row == [LogRow(1, "c1", type, "failed") EXCEPT !.retry_count = retries]
          IN  /\ notification_logs = <<row>>
              /\ probe = [fn |-> "retryNotification", arg |-> row]
    /\ tasks = [t \in 1..MaxRetryRequests |-> IdleRetry]
    /\ delivered = 0

\* retryNotification(1) up to the answer of its select on notification_logs
RetryFetchNotification(t) ==
    /\ tasks[t].pc = "idle"
    /\ LET found == {i \in DOMAIN notification_logs : notification_logs[i].id = 1}
       IN  tasks' = [tasks EXCEPT ![t] =
              IF Cardinality(found) # 1
              THEN [@ EXCEPT !.pc = "failed", !.error = "Notification not found"]
              ELSE LET notification == notification_logs[CHOOSE i \in found : TRUE]
                   IN  IF notification.retry_count >= notification.max_retries
                       THEN [@ EXCEPT !.pc = "failed", !.notification = notification,
                                      !.error = "Max retries exceeded"]
                       ELSE [@ EXCEPT !.pc = "call", !.notification = notification]]
    /\ delivered' = delivered + 1
    /\ UNCHANGED <<businesses, calls, call_analytics, notification_logs, probe>>

\* the select of the call with its business
RetryFetchCall(t) ==
    /\ tasks[t].pc = "call"
    /\ LET found == Rows(calls, LAMBDA r : r.id = tasks[t].notification.call_id)
       IN  tasks' = [tasks EXCEPT ![t] =
              IF Cardinality(found) # 1
              THEN [@ EXCEPT !.pc = "failed", !.error = "Call not found"]
              ELSE LET call == calls[CHOOSE i \in found : TRUE]
                   IN  [@ EXCEPT !.pc = "send", !.call = call,
                                 !.business = CHOOSE b \in businesses : b.id = call.business_id]]
    /\ UNCHANGED <<businesses, calls, call_analytics, notification_logs, delivered, probe>>

\* sendSMSNotification or sendSlackNotification of the retry, with the row
\* logNotification inserts for the attempt
RetrySend(t, httpOk) ==
    /\ tasks[t].pc = "send"
    /\ LET task == tasks[t]
           type == task.notification.notification_type
           result ==
              IF type = "sms" THEN [success |-> TRUE, status |-> "sent"]
              ELSE IF task.business.slack_webhook_url = Null
                   THEN [success |-> FALSE, status |-> "skipped"]
                   ELSE IF httpOk THEN [success |-> TRUE, status |-> "sent"]
                        ELSE [success |-> FALSE, status |-> "failed"]
       IN  /\ notification_logs' =
                 IF result.status = "skipped" THEN notification_logs
                 ELSE Append(notification_logs,
                             LogRow(Len(notification_logs) + 1, task.call.id, type,
                                    result.status))
           /\ tasks' = [tasks EXCEPT ![t] = [@ EXCEPT !.pc = "update", !.result = result]]
    /\ UNCHANGED <<businesses, calls, call_analytics, delivered, probe>>

\* update({retry_count: notification.retry_count + 1, status}).eq('id', 1)
RetryUpdate(t) ==
    /\ tasks[t].pc = "update"
    /\ LET task == tasks[t]
       IN  /\ notification_logs' =
                 [i \in DOMAIN notification_logs |->
                     IF notification_logs[i].id = task.notification.id
                     THEN [notification_logs[i] EXCEPT
                             !.retry_count = task.notification.retry_count + 1,
                             !.status = IF task.result.success THEN "sent" ELSE "failed"]
                     ELSE notification_logs[i]]
           /\ tasks' = [tasks EXCEPT ![t] = [@ EXCEPT !.pc = "done"]]
    /\ UNCHANGED <<businesses, calls, call_analytics, delivered, probe>>

NextRetry ==
    \/ \E t \in Slots : RetryFetchNotification(t)
    \/ \E t \in Slots : RetryFetchCall(t)
    \/ \E t \in Slots, httpOk \in BOOLEAN : RetrySend(t, httpOk)
    \/ \E t \in Slots : RetryUpdate(t)

SpecRetry == InitRetry /\ [][NextRetry]_vars
----------------------------------------------------------------------------
(* POST /api/businesses followed by events to the registered number *)

\* businesses registered in one behaviour of SpecRegister
MaxBusinesses == 2

\* one phone number as an onboarding form may write it
RegisteredForms ==
    {<<"+","1","5","5","5","0","0","0","0","0","0","1">>, <<"(","5","5","5",")"," ","0","0","0","-","0","0","0","1">>, <<"5","5","5","-","0","0","0","-","0","0","0","1">>, <<" ","1","5","5","5","0","0","0","0","0","0","1">>}

\* the bodies of POST /api/businesses
Registrations ==
    {[phone_number |-> p, retell_agent_id |-> a, slack_webhook_url |-> Undefined] :
        p \in RegisteredForms, a \in {"agent1", "agent2"}}

\* events to the number in two written forms
RegisterEvents ==
    {[BareEvent EXCEPT !.to_number = n] : n \in {<<"+","1","5","5","5","0","0","0","0","0","0","1">>, <<"5","5","5","-","0","0","0","-","0","0","0","1">>}}

InitRegister ==
    /\ businesses = {}
    /\ calls = <<>>
    /\ call_analytics = <<>>
    /\ notification_logs = <<>>
    /\ tasks = [t \in 1..MaxDeliveries |-> IdleTask]
    /\ delivered = 0
    /\ probe = NoProbe

\* router.post('/') trims phone_number; createBusiness refuses a phone number
\* or an agent id that a row has, and inserts the business with the phone
\* number as it was sent
createBusiness(businessData) ==
    LET phone_number == Trim(businessData.phone_number)
    IN  /\ Cardinality(businesses) < MaxBusinesses
        /\ ~\E b \in businesses : b.phone_number = phone_number
        /\ ~\E b \in businesses : b.retell_agent_id = businessData.retell_agent_id
        /\ businesses' = businesses \cup
              {[id |-> IF businesses = {} THEN "b1" ELSE "b2",
                phone_number |-> phone_number,
                retell_agent_id |-> businessData.retell_agent_id,
                slack_webhook_url |-> Sent(Null, businessData.slack_webhook_url),
                is_active |-> TRUE]}
        /\ UNCHANGED <<calls, call_analytics, notification_logs, tasks, delivered, probe>>

NextRegister ==
    \/ \E businessData \in Registrations : createBusiness(businessData)
    \/ \E b \in {"b1", "b2"} : DeactivateBusiness(b)
    \/ \E e \in RegisterEvents : Deliver(e)
    \/ \E t \in Slots : FindBusiness(t)
    \/ \E t \in Slots : FetchCall(t)
    \/ \E t \in Slots : WriteCall(t, TRUE)
    \/ \E t \in Slots : FetchAnalytics(t)
    \/ \E t \in Slots : WriteAnalytics(t, TRUE)

SpecRegister == InitRegister /\ [][NextRegister]_vars
----------------------------------------------------------------------------
(* Properties *)

\* the rows of a calls table with a given id
CallRowsIn(table, id) == {i \in DOMAIN table : table[i].id = id}

\* the request t took a step
Stepped(t) == tasks'[t] # tasks[t]

\* C1: in every reachable state, whatever the order and interleaving of
\* Started, Ended, Analyzed and Legacy events, the calls table holds at most
\* one row per call_id.
C1_OneRecordPerCallId ==
    \A c \in CallIds : Cardinality(CallRowsIn(calls, c)) <= 1

\* two requests for one call_id have both written the record: the first
\* inserted it, the second found it and updated it
C1_Witness ==
    \E t, u \in Slots :
       /\ t # u
       /\ tasks[t].ev.call_id = tasks[u].ev.call_id
       /\ tasks[u].ev.event_type # "call_ended"
       /\ tasks[u].existingCall = Null /\ tasks[u].callRecord.id # Null
       /\ tasks[t].existingCall # Null /\ tasks[t].callRecord.id # Null
       /\ Cardinality(CallRowsIn(calls, tasks[t].ev.call_id)) = 1

\* C2: once a record's status is completed or failed, no step of any request
\* changes it to in-progress.
C2_TerminalStatusKept ==
    [][\A i \in DOMAIN calls :
          calls[i].call_status \in {"completed", "failed"}
             => calls'[i].call_status # "in-progress"]_vars

\* C3: the business_id of a record never changes once the record exists.
C3_BusinessIdImmutable ==
    [][\A i \in DOMAIN calls : calls'[i].business_id = calls[i].business_id]_vars

\* C4: when a request of any type reaches its record write and no record
\* exists for its call_id, the write succeeds and leaves exactly one record
\* for that call_id.
C4_FirstEventCreates ==
    [][\A t \in Slots :
          /\ tasks[t].pc \in {"write", "status"}
          /\ Stepped(t)
          /\ CallRowsIn(calls, tasks[t].ev.call_id) = {}
          => /\ tasks'[t].pc # "failed"
             /\ Cardinality(CallRowsIn(calls', tasks[t].ev.call_id)) = 1]_vars

\* the to_number, once normalized, is the phone number of no active business
NoActiveBusiness(to_number) ==
    ~ \E b \in businesses :
         b.is_active /\ b.phone_number = normalizePhoneNumber(to_number)

\* C5: a request whose to_number, after normalization, matches no active
\* business fails at the lookup, is logged through logFailedWebhook, does
\* nothing afterwards, and leaves calls, call_analytics and notification_logs
\* as they were.
C5_ResolutionFailureIsTerminal ==
    [][\A t \in Slots :
          /\ (tasks[t].pc = "resolve" /\ Stepped(t)
                /\ NoActiveBusiness(tasks[t].ev.to_number)
              => /\ tasks'[t].pc = "failed"
                 /\ tasks'[t].logged
                 /\ tasks'[t].business = NoBusiness
                 /\ UNCHANGED <<calls, call_analytics, notification_logs>>)
          /\ (tasks[t].pc = "failed" => ~Stepped(t))]_vars

\* a request failed at the lookup because the business its to_number
\* denotes exists but was deactivated
C5_Witness ==
    \E t \in Slots :
       /\ tasks[t].pc = "failed"
       /\ tasks[t].logged
       /\ tasks[t].business = NoBusiness
       /\ \E b \in businesses :
             /\ ~b.is_active
             /\ b.phone_number = normalizePhoneNumber(tasks[t].ev.to_number)

\* the requests t and u carried the same Analyzed event, both were processed
\* to the end, and no other request was for their call_id
AppliedTwice(t, u) ==
    /\ t # u
    /\ tasks[t].ev = tasks[u].ev
    /\ tasks[t].ev.event_type = "call_analyzed"
    /\ tasks[t].pc = "done" /\ tasks[u].pc = "done"
    /\ tasks[t].existingCall = Null
    /\ \A v \in Slots \ {t, u} :
          tasks[v].pc = "idle" \/ tasks[v].ev.call_id # tasks[t].ev.call_id

\* the record as the single application of request t leaves it, with
\* notification_sent as the dispatch of request v reported it
RecordAfter(t, v) ==
    [tasks[t].callRecord EXCEPT
       !.notification_sent = IF tasks[v].dispatched > 0 THEN tasks[v].overall ELSE @]

\* rows of notification_logs for a call and a channel
LogRows(c, type) ==
    Rows(notification_logs, LAMBDA r : r.call_id = c /\ r.notification_type = type)

C7_NoFieldErased ==
    [][\A t \in Slots : \A i \in DOMAIN calls :
          Stepped(t) /\ calls[i].id = tasks[t].ev.call_id =>
             LET old == calls[i]
                 new == calls'[i]
                 webhookData == tasks[t].ev
                 info == tasks[t].extractedInfo
             IN  /\ Truthy(old.caller_name) /\ ~Truthy(info.name)
                      => new.caller_name = old.caller_name
                 /\ Truthy(old.callback_number) /\ ~Truthy(info.callback_number)
                      => new.callback_number = old.callback_number
                 /\ Truthy(old.address) /\ ~Truthy(info.address)
                      => new.address = old.address
                 /\ Truthy(old.reason) /\ ~Truthy(info.reason)
                      => new.reason = old.reason
                 /\ Truthy(old.call_summary) /\ ~Truthy(info.call_summary)
                      => new.call_summary = old.call_summary
                 /\ old.recording_url # Null /\ webhookData.recording_url = Undefined
                      => new.recording_url = old.recording_url
                 /\ Truthy(old.transcript_text) /\ ~Truthy(TranscriptText(webhookData))
                      => new.transcript_text = old.transcript_text
                 /\ webhookData.call_duration = 0
                      => new.duration = old.duration /\ new.cost = old.cost]_vars

\* C8: the record write of an Analyzed request that succeeds leaves exactly
\* one record for its call_id, with status completed, whatever was there
\* before; an Analyzed request that was processed has a record.
C8_AnalyzedCompletes ==
    [][\A t \in Slots :
          tasks[t].ev.event_type = "call_analyzed" =>
             /\ (tasks[t].pc = "write" /\ Stepped(t) /\ tasks'[t].pc # "failed"
                   => /\ Cardinality(CallRowsIn(calls', tasks[t].ev.call_id)) = 1
                      /\ \A i \in CallRowsIn(calls', tasks[t].ev.call_id) :
                            calls'[i].call_status = "completed"
                      /\ tasks'[t].callRecord.call_status = "completed")
             /\ (tasks'[t].pc = "done"
                   => CallRowsIn(calls', tasks[t].ev.call_id) # {})]_vars

\* an Analyzed request found the record that a Started or a failed Legacy
\* request had created, and completed it
C8_Witness ==
    \E t, u \in Slots :
       /\ tasks[t].ev.event_type = "call_analyzed"
       /\ tasks[t].ev.call_id = tasks[u].ev.call_id
       /\ tasks[u].ev.event_type # "call_analyzed"
       /\ tasks[u].existingCall = Null
       /\ tasks[u].callRecord.id # Null
       /\ tasks[u].callRecord.call_status \in {"in-progress", "failed"}
       /\ tasks[t].existingCall # Null
       /\ tasks[t].callRecord.id # Null
       /\ \A i \in CallRowsIn(calls, tasks[t].ev.call_id) :
             calls[i].call_status = "completed"

C10_LegacySingleShot ==
    [][\A t \in Slots :
          tasks'[t].pc # "idle" /\ tasks'[t].ev.event_type = Undefined =>
             LET webhookData == tasks'[t].ev
             IN  /\ (tasks'[t].pc \notin {"resolve", "failed"}
                       => ((tasks'[t].extractedInfo # EmptyInfo) <=>
                              (/\ webhookData.call_status = "completed"
                               /\ Truthy(TranscriptText(webhookData)))))
                 /\ (tasks[t].pc = "write" /\ Stepped(t) /\ tasks'[t].pc # "failed"
                       => /\ webhookData.call_status # Undefined
                             => \A i \in CallRowsIn(calls', webhookData.call_id) :
                                   calls'[i].call_status = webhookData.call_status
                          /\ CallRowsIn(calls', webhookData.call_id) # {})
                 /\ (Stepped(t) /\ calls' # calls
                       => tasks[t].pc \in {"write", "notification_status"})
                 /\ tasks'[t].dispatched <= 1
                 /\ (tasks'[t].dispatched = 1 => webhookData.call_status = "completed")
                 /\ (tasks'[t].pc = "done"
                       => tasks'[t].dispatched =
                             IF webhookData.call_status = "completed" THEN 1 ELSE 0)]_vars

\* a completed Legacy request with a transcript was processed: the
\* extraction found the caller's name and the dispatch ran once; a failed
\* Legacy request with a transcript was processed without extraction
C10_Witness ==
    \E t, u \in Slots :
       /\ tasks[t].ev.event_type = Undefined
       /\ tasks[t].ev.call_status = "completed"
       /\ tasks[t].pc = "done"
       /\ tasks[t].extractedInfo.name = <<"B","o","b">>
       /\ tasks[t].dispatched = 1
       /\ tasks[u].ev.event_type = Undefined
       /\ tasks[u].ev.call_status = "failed"
       /\ Truthy(tasks[u].ev.transcript)
       /\ tasks[u].pc = "done"
       /\ tasks[u].extractedInfo = EmptyInfo
       /\ tasks[u].dispatched = 0


\* C11: the record write of a Started request that found no record for its
\* call_id inserts one record with that id, the business_id of the resolved
\* business, status in-progress and no extracted caller field; a Started
\* request never dispatches a notification.
C11_StartedCreatesMinimalRecord ==
    [][\A t \in Slots :
          tasks[t].ev.event_type = "call_started" =>
             /\ ((/\ tasks[t].pc = "write" /\ Stepped(t)
                  /\ CallRowsIn(calls, tasks[t].ev.call_id) = {})
                   => /\ tasks'[t].pc = "analytics_fetch"
                      /\ Cardinality(CallRowsIn(calls', tasks[t].ev.call_id)) = 1
                      /\ \A i \in CallRowsIn(calls', tasks[t].ev.call_id) :
                            /\ calls'[i].id = tasks[t].ev.call_id
                            /\ calls'[i].business_id = tasks[t].business.id
                            /\ calls'[i].call_status = "in-progress"
                            /\ calls'[i].caller_name = NullText
                            /\ calls'[i].callback_number = NullText
                            /\ calls'[i].address = NullText
                            /\ calls'[i].reason = NullText
                            /\ calls'[i].call_summary = NullText
                            /\ calls'[i].notification_sent = FALSE)
             /\ tasks'[t].dispatched = 0
             /\ (Stepped(t) => notification_logs' = notification_logs)]_vars

\* a Started request created the record of its call and was processed
C11_Witness ==
    \E t \in Slots :
       /\ tasks[t].ev.event_type = "call_started"
       /\ tasks[t].pc = "done"
       /\ tasks[t].existingCall = Null
       /\ tasks[t].callRecord.call_status = "in-progress"
       /\ tasks[t].callRecord.business_id = "b2"
       /\ \E i \in DOMAIN calls : calls[i] = tasks[t].callRecord

\* C12: the status update of an Ended request on a record whose status is
\* in-progress or completed succeeds, sets the status to completed and
\* leaves every other field of the record, every other record and the
\* notification log as they were; an Ended request runs no extraction and
\* dispatches no notification.
C12_EndedStatusOnly ==
    [][\A t \in Slots :
          tasks[t].ev.event_type = "call_ended" =>
             /\ ((/\ tasks[t].pc = "status" /\ Stepped(t)
                  /\ \E j \in DOMAIN calls :
                        /\ calls[j].id = tasks[t].ev.call_id
                        /\ calls[j].call_status \in {"in-progress", "completed"})
                   => /\ tasks'[t].pc = "analytics_fetch"
                      /\ calls' = [i \in DOMAIN calls |->
                                     IF calls[i].id = tasks[t].ev.call_id
                                     THEN [calls[i] EXCEPT !.call_status = "completed"]
                                     ELSE calls[i]])
             /\ tasks'[t].extractedInfo = EmptyInfo
             /\ tasks'[t].dispatched = 0
             /\ (Stepped(t) => notification_logs' = notification_logs)]_vars

\* an Ended request completed a record that an Analyzed request had filled
\* and notified; the extracted fields and notification_sent are still there
C12_Witness ==
    \E t, u \in Slots :
       /\ tasks[t].ev.event_type = "call_ended"
       /\ tasks[t].pc = "done"
       /\ tasks[u].ev.event_type = "call_analyzed"
       /\ tasks[u].ev.call_id = tasks[t].ev.call_id
       /\ tasks[u].pc = "done"
       /\ tasks[t].callRecord.notification_sent
       /\ tasks[t].callRecord.caller_name = <<"B","o","b">>
       /\ \E i \in DOMAIN calls : calls[i] = tasks[t].callRecord

\* rows of call_analytics for a business today
DayRows(table, businessId) ==
    {i \in DOMAIN table : table[i].business_id = businessId /\ table[i].date = Today}

\* a counter of the business today, 0 while the day has no row
Counter(table, businessId, name) ==
    IF DayRows(table, businessId) = {} THEN 0
    ELSE table[CHOOSE i \in DayRows(table, businessId) : TRUE][name]

\* C13: the step that ends the successful processing of a request, of
\* whichever event type, leaves total_calls of its business today one higher
\* than it was; no other step of the request changes call_analytics.
C13_EveryEventCountsOnce ==
    [][\A t \in Slots :
          Stepped(t) =>
             IF tasks'[t].pc = "done"
             THEN Counter(call_analytics', tasks[t].business.id, "total_calls") =
                     Counter(call_analytics, tasks[t].business.id, "total_calls") + 1
             ELSE call_analytics' = call_analytics]_vars

\* C14: the analytics update of a request that completed a call and
\* dispatched its notifications adds one to successful_notifications and
\* nothing to failed_notifications when the dispatch succeeded, and one to
\* failed_notifications and nothing to successful_notifications when it
\* failed, whether or not the day already has a row.
C14_AnalyticsFollowOutcome ==
    [][\A t \in Slots :
          tasks[t].pc = "analytics_write" /\ Stepped(t) /\ tasks[t].dispatched = 1 =>
             LET b == tasks[t].business.id
                 sent == Counter(call_analytics, b, "successful_notifications")
                 sent2 == Counter(call_analytics', b, "successful_notifications")
                 failed == Counter(call_analytics, b, "failed_notifications")
                 failed2 == Counter(call_analytics', b, "failed_notifications")
             IN  IF tasks[t].overall
                 THEN sent2 = sent + 1 /\ failed2 = failed
                 ELSE sent2 = sent /\ failed2 = failed + 1]_vars

\* C15: no step lowers total_calls, successful_notifications or
\* failed_notifications of a call_analytics row.
C15_CountersNeverDecrease ==
    [][\A i \in DOMAIN call_analytics :
          /\ i \in DOMAIN call_analytics'
          /\ call_analytics'[i].total_calls >= call_analytics[i].total_calls
          /\ call_analytics'[i].successful_notifications >=
                call_analytics[i].successful_notifications
          /\ call_analytics'[i].failed_notifications >=
                call_analytics[i].failed_notifications]_vars

\* requests that ran updateCallAnalytics for the business to its end
Counted(businessId) ==
    {t \in Slots :
        /\ tasks[t].pc = "done"
        /\ tasks[t].business.id = businessId
        /\ tasks[t].ev.event_type # "call_analyzed"}

\* C16: once every accepted request has ended, total_calls of a business
\* today is the number of requests that ran updateCallAnalytics for it to
\* completion, in whatever order their steps interleaved.
C16_NoIncrementLost ==
    (\A t \in Slots : tasks[t].pc \in {"idle", "done", "failed"}) =>
       \A b \in {"b1", "b2"} :
          Counter(call_analytics, b, "total_calls") = Cardinality(Counted(b))

\* C17: call_analytics never holds two rows for one business and date.
C17_OneAnalyticsRowPerDay ==
    \A i, j \in DOMAIN call_analytics :
       /\ call_analytics[i].business_id = call_analytics[j].business_id
       /\ call_analytics[i].date = call_analytics[j].date
       => i = j

\* two requests for one business both found no row for the day and both
\* ended their analytics update; the day has one row, and the other
\* business has its own
C17_Witness ==
    \E t, u \in Slots :
       /\ t # u
       /\ tasks[t].pc = "done" /\ tasks[u].pc = "done"
       /\ tasks[t].business.id = tasks[u].business.id
       /\ tasks[t].ev.event_type # "call_analyzed"
       /\ tasks[u].ev.event_type # "call_analyzed"
       /\ tasks[t].existingAnalytics = NoAnalytics
       /\ tasks[u].existingAnalytics = NoAnalytics
       /\ Cardinality(DayRows(call_analytics, tasks[t].business.id)) = 1

\* request t is past its record write and in or after its notification
\* dispatch
Dispatching(t) ==
    tasks[t].pc \in {"sms", "slack_post", "slack_log", "notification_status"}

C19_StoreRejectionFails ==
    [][\A t \in Slots :
          /\ (tasks[t].pc \in {"write", "status"} /\ Stepped(t)
                => \/ /\ tasks'[t].pc = "failed"
                      /\ tasks'[t].logged
                      /\ tasks'[t].error # Null
                      /\ tasks'[t].dispatched = 0
                      /\ UNCHANGED <<call_analytics, notification_logs>>
                   \/ /\ tasks'[t].pc # "failed"
                      /\ tasks'[t].callRecord.id = tasks[t].ev.call_id
                      /\ \E i \in DOMAIN calls' : calls'[i] = tasks'[t].callRecord)
          /\ (tasks[t].pc = "failed" => ~Stepped(t))
          /\ (tasks'[t].pc = "failed" => tasks'[t].logged /\ tasks'[t].dispatched = 0)]_vars

\* the store rejected the update of an existing record: the request failed,
\* was logged, and the record and the analytics are as the earlier request
\* left them
C19_Witness ==
    \E t, u \in Slots :
       /\ tasks[t].pc = "failed"
       /\ tasks[t].error = "Failed to update call"
       /\ tasks[t].existingCall # Null
       /\ tasks[t].logged
       /\ tasks[u].pc = "done"
       /\ tasks[u].ev.call_id = tasks[t].ev.call_id
       /\ \E i \in DOMAIN calls : calls[i] = tasks[u].callRecord
       /\ Len(call_analytics) = 1
       /\ call_analytics[1].total_calls = 1

\* C20: a step of a request for one call_id leaves the record of every
\* other call_id as it is, whether the step succeeds or fails.
C20_CallsIsolated ==
    [][\A t \in Slots :
          Stepped(t) =>
             \A i \in DOMAIN calls :
                calls[i].id # tasks'[t].ev.call_id =>
                   i \in DOMAIN calls' /\ calls'[i] = calls[i]]_vars

\* a request for one call was processed and notified, a request for another
\* call failed on a rejected insert, and the record of the first call is as
\* its own request left it
C20_Witness ==
    \E t, u \in Slots :
       /\ tasks[t].ev.call_id # tasks[u].ev.call_id
       /\ tasks[t].pc = "done"
       /\ tasks[t].dispatched = 1
       /\ tasks[t].overall
       /\ tasks[u].pc = "failed"
       /\ tasks[u].error = "Failed to create call"
       /\ Len(calls) = 1
       /\ calls[1] = [tasks[t].callRecord EXCEPT !.notification_sent = TRUE]

----------------------------------------------------------------------------
(* The text of an event *)

\* the five transcript-bearing fields of an event, first choice first
TextFields(e) ==
    <<e.transcript, e.transcript_text, e.conversation, e.call_summary, e.summary>>

\* the positions of the fields that are neither absent nor empty
Filled(e) ==
    {i \in DOMAIN TextFields(e) :
        TextFields(e)[i] \notin {UndefinedText, NullText} /\ Len(TextFields(e)[i]) > 0}

\* C21: for a call_analyzed event with a non-empty transcript-bearing field,
\* the text extraction is run on, and the transcript_text its record holds
\* once written, is the first non-empty one of transcript, transcript_text,
\* conversation, call_summary and summary.
C21_FirstNonEmptyText ==
    \A t \in Slots :
        (/\ tasks[t].ev.event_type = "call_analyzed"
         /\ tasks[t].pc \notin {"idle", "resolve", "failed"}
         /\ Filled(tasks[t].ev) # {})
        => LET text == TextFields(tasks[t].ev)[Min(Filled(tasks[t].ev))]
           IN  /\ tasks[t].extractedInfo = extractCallInformation(text)
               /\ tasks[t].callRecord # NoCall =>
                     /\ tasks[t].callRecord.transcript_text = text
                     /\ \A i \in DOMAIN calls :
                           calls[i].id = tasks[t].ev.call_id
                              => calls[i].transcript_text = text

C21_Witness ==
    \E t \in Slots :
        /\ t > 1
        /\ tasks[t].pc = "done"
        /\ tasks[t].ev.transcript = <<>>
        /\ tasks[t].ev.transcript_text = UndefinedText
        /\ tasks[t].ev.conversation = ConversationText
        /\ tasks[t].ev.summary = SummaryText
        /\ Len(calls) = 1
        /\ calls[1].transcript_text = ConversationText
        /\ calls[1].reason = <<"E","m","e","r","g","e","n","c","y"," ","t","r","e","e"," ","r","e","m","o","v","a","l">>
----------------------------------------------------------------------------
(* Canonical phone formatting *)

\* the canonical form of a run of digits: ten digits get "+1", any other
\* number of digits gets "+"
Canonical(digits) ==
    IF Len(digits) = 10 THEN <<"+","1">> \o digits ELSE <<"+">> \o digits

\* C22: for every input, both formatters return the input's digits, all other
\* characters stripped, prefixed by "+1" when there are exactly ten digits
\* and by "+" for eleven digits or any other number of digits.
C22_CanonicalFormat ==
    probe.fn = "phone" =>
        /\ probe.formatted # Pending => probe.formatted = Canonical(probe.digits)
        /\ probe.normalized # Pending => probe.normalized = Canonical(probe.digits)

\* C23: formatPhoneNumber and normalizePhoneNumber return the same result for
\* every input string, the empty string and strings without digits included.
C23_FormattersAgree ==
    (/\ probe.fn = "phone"
     /\ probe.formatted # Pending
     /\ probe.normalized # Pending)
        => probe.formatted = probe.normalized

\* the two digit runs of one US number: ten digits, or eleven with a leading 1
USNumber == DigitRun(<<>>, 10)
USForms == {USNumber, <<"1">> \o USNumber}

\* C24: normalizePhoneNumber maps every written form of one US number to
\* "+1" followed by its ten digits, and normalizing a result again changes
\* nothing.
C24_OneNumberOneForm ==
    probe.fn = "phone" =>
        /\ (probe.normalized # Pending /\ probe.digits \in USForms)
              => probe.normalized = <<"+","1">> \o USNumber
        /\ probe.renormalized # Pending => probe.renormalized = probe.normalized

C24_Witness ==
    /\ probe.fn = "phone"
    /\ probe.arg = <<"(","5","5","5",")"," ","1","2","3","-","4","5","6","7">>
    /\ probe.normalized = <<"+","1","5","5","5","1","2","3","4","5","6","7">>
    /\ probe.renormalized = <<"+","1","5","5","5","1","2","3","4","5","6","7">>
----------------------------------------------------------------------------
(* Summary and confidence *)

\* C25: a null reason gives "Customer inquiry"; a reason of at most ten
\* words is returned unchanged; a reason of more than ten words gives its
\* first ten words, one space apart, followed by "...".
C25_SummaryOfReason ==
    (probe.fn = "summary" /\ probe.result # Pending) =>
        /\ probe.arg = NullText => probe.result = <<"C","u","s","t","o","m","e","r"," ","i","n","q","u","i","r","y">>
        /\ (probe.arg # NullText /\ Len(probe.words) <= 10)
              => probe.result = probe.arg
        /\ (probe.arg # NullText /\ Len(probe.words) > 10)
              => probe.result = Spaced(SubSeq(probe.words, 1, 10), <<" ">>) \o <<".",".",".">>

C25_Witness ==
    /\ probe.fn = "summary"
    /\ Len(probe.words) = 15
    /\ probe.arg = Spaced(probe.words, <<" "," ">>)
    /\ probe.result =
          <<"t","h","e"," ","k","i","t","c","h","e","n"," ","s","i","n","k"," ","i","s"," ","l","e","a","k","i","n","g"," ","w","a","t","e","r"," ","o","n","t","o"," ","f","l","o","o","r"," ","a","n","d"," ","w","a","l","l","s",".",".",".">>

\* the fields of an extraction result that hold a value
Present(info) ==
    {f \in {"name", "callback_number", "address", "reason"} :
        info[f] \notin {UndefinedText, NullText} /\ Len(info[f]) > 0}

\* C26: the confidence is 0.25 for each of name, callback_number, address
\* and reason that is present, so one of 0, 0.25, 0.5, 0.75 and 1 (in
\* hundredths here), whatever call_summary and the transcript are.
C26_ConfidenceIsQuarterPerField ==
    (probe.fn = "confidence" /\ probe.result # -1) =>
        /\ probe.result * 4 = 100 * Cardinality(Present(probe.arg))
        /\ probe.result \in {0, 25, 50, 75, 100}

C26_Witness ==
    /\ probe.fn = "confidence"
    /\ Present(probe.arg) = {"name", "reason"}
    /\ Truthy(probe.arg.call_summary)
    /\ probe.result = 50
----------------------------------------------------------------------------
(* Extraction *)

\* the emergency phrase for a set of secondary words, plumbingWords being
\* the words of the first choice
EmergencyPhrase(secondary, plumbingWords) ==
    IF secondary \cap plumbingWords # {} THEN <<"E","m","e","r","g","e","n","c","y"," ","p","l","u","m","b","i","n","g"," ","s","e","r","v","i","c","e">>
    ELSE IF secondary \cap {<<"t","r","e","e">>, <<"b","r","a","n","c","h">>} # {} THEN <<"E","m","e","r","g","e","n","c","y"," ","t","r","e","e"," ","r","e","m","o","v","a","l">>
    ELSE IF secondary \cap {<<"e","l","e","c","t","r","i","c","a","l">>, <<"p","o","w","e","r">>} # {}
    THEN <<"E","m","e","r","g","e","n","c","y"," ","e","l","e","c","t","r","i","c","a","l"," ","s","e","r","v","i","c","e">>
    ELSE <<"E","m","e","r","g","e","n","c","y"," ","s","e","r","v","i","c","e"," ","r","e","q","u","e","s","t">>

\* an emergency transcript has been through extraction
EmergencyExtracted ==
    /\ probe.fn = "extract"
    /\ probe.family = "emergency"
    /\ probe.parts.trigger # <<>>
    /\ probe.result # EmptyInfo

\* C27 as stated: a transcript with "emergency", "urgent" or "storm" gets the
\* phrase of its secondary words in the priority plumbing/water, tree/branch,
\* electrical/power, else "Emergency service request", whatever else it says.
C27_EmergencyShortCircuit ==
    EmergencyExtracted =>
        probe.result.reason =
            EmergencyPhrase(probe.parts.secondary, {<<"p","l","u","m","b","i","n","g">>, <<"w","a","t","e","r">>})

\* C27: a transcript with "emergency", "urgent" or "storm" gets the phrase of
\* its secondary words in the priority plumbing/sink/water, tree/branch,
\* electrical/power, else "Emergency service request", whatever else it says.
C27_EmergencyShortCircuitWithSink ==
    EmergencyExtracted =>
        probe.result.reason =
            EmergencyPhrase(probe.parts.secondary, {<<"p","l","u","m","b","i","n","g">>, <<"s","i","n","k">>, <<"w","a","t","e","r">>})

C27_Witness ==
    /\ EmergencyExtracted
    /\ probe.arg = <<"t","r","e","e"," ","s","i","n","k"," ","e","m","e","r","g","e","n","c","y"," ","i"," ","n","e","e","d"," ","r","o","o","f","i","n","g"," ","h","e","l","p">>
    /\ probe.result.reason = <<"E","m","e","r","g","e","n","c","y"," ","p","l","u","m","b","i","n","g"," ","s","e","r","v","i","c","e">>

\* the alternatives of a table of patterns
Alternatives(table) ==
    UNION {{table[k][a] : a \in DOMAIN table[k]} : k \in DOMAIN table}

\* the words and phrases the extractors look for
Cues ==
    Alternatives(namePatterns) \cup Alternatives(phonePatterns)
      \cup Alternatives(addressPatterns) \cup Alternatives(servicePatterns)
      \cup {streetWords[k] : k \in DOMAIN streetWords}
      \cup {businessServices[k] : k \in DOMAIN businessServices}
      \cup {<<"i","n","f","o","r","m","a","t","i","o","n",":">>, <<"n","a","m","e">>, <<"a","d","d","r","e","s","s">>, <<"r","e","a","s","o","n">>, <<"n","e","e","d">>,
            <<"e","m","e","r","g","e","n","c","y">>, <<"u","r","g","e","n","t">>, <<"s","t","o","r","m">>}

\* a text that holds none of them, in any case of letters
NoCue(text) ==
    \A cue \in Cues : ~Includes(CollapseWhitespace(toLowerCase(text)), cue)

AllNull ==
    [name |-> NullText, callback_number |-> NullText, address |-> NullText,
     reason |-> NullText, call_summary |-> NullText]

\* C28: a non-empty string transcript with no recognizable pattern gives
\* null for name, callback_number, address and reason and "Customer inquiry"
\* for call_summary; undefined, null, '' and a non-string give null for
\* every field; every input gives a result.
C28_NothingFabricated ==
    (probe.fn = "extract" /\ probe.result # EmptyInfo) =>
        IF probe.arg \in {UndefinedText, NullText, <<>>, ObjectValue}
        THEN probe.result = AllNull
        ELSE NoCue(probe.arg)
                => probe.result = [AllNull EXCEPT !.call_summary = <<"C","u","s","t","o","m","e","r"," ","i","n","q","u","i","r","y">>]

C28_Witness ==
    /\ probe.fn = "extract"
    /\ probe.arg = <<"h","i"," ","T","h","a","n","k","s">>
    /\ NoCue(probe.arg)
    /\ probe.result.reason = NullText
    /\ probe.result.call_summary = <<"C","u","s","t","o","m","e","r"," ","i","n","q","u","i","r","y">>

\* "+" followed by 7 to 15 digits
WellFormedNumber(number) ==
    /\ Len(number) - 1 \in 7..15
    /\ number[1] = "+"
    /\ \A i \in 2..Len(number) : number[i] \in Digit

\* C29: a dictated run of digits is accepted only with 7 to 15 digits, the
\* patterns being tried in order: the callback_number is the canonical form
\* of the first accepted run, or null when none is accepted, so that every
\* callback_number is "+" followed by 7 to 15 digits.
C29_CallbackNumberLength ==
    (probe.fn = "extract" /\ probe.result # EmptyInfo) =>
        /\ probe.result.callback_number # NullText
              => WellFormedNumber(probe.result.callback_number)
        /\ probe.family = "phone" =>
              probe.result.callback_number =
                 IF Len(probe.parts.first) \in 7..15 THEN Canonical(probe.parts.first)
                 ELSE IF Len(probe.parts.second) \in 7..15
                 THEN Canonical(probe.parts.second)
                 ELSE NullText

C29_Witness ==
    /\ probe.fn = "extract"
    /\ probe.arg = <<"m","y"," ","n","u","m","b","e","r"," ","i","s"," ","5","5","5"," ","I","t","'","s"," ","9","5","5","-","5","1","2","-","3","4","5","6">>
    /\ probe.result.callback_number = <<"+","1","9","5","5","5","1","2","3","4","5","6">>
----------------------------------------------------------------------------
(* Validation *)

\* a body without call_id or to_number, or with an event_type or a
\* call_status that is none of the known ones
Malformed(body) ==
    \/ body.call_id = Undefined
    \/ body.to_number = UndefinedText
    \/ /\ body.event_type # Undefined
       /\ body.event_type \notin {"call_started", "call_ended", "call_analyzed"}
    \/ /\ body.call_status # Undefined
       /\ body.call_status \notin {"completed", "failed", "in-progress"}

\* C30: a request whose body lacks call_id or to_number, or carries an
\* unknown event_type or call_status, is rejected on arrival: the step that
\* receives it changes no table, and the request never takes a step of
\* handleRetellWebhook afterwards.
C30_MalformedRejected ==
    [][\A t \in Slots :
          (tasks'[t].pc # "idle" /\ Malformed(tasks'[t].ev)) =>
              /\ tasks'[t] = [IdleTask EXCEPT !.pc = "rejected", !.ev = tasks'[t].ev]
              /\ tasks[t].pc = "idle" =>
                    UNCHANGED <<businesses, calls, call_analytics, notification_logs>>
              /\ tasks[t].pc # "idle" => tasks'[t] = tasks[t]]_vars

C30_Witness ==
    \E t \in Slots, u \in Slots :
        /\ tasks[t].pc = "rejected"
        /\ tasks[t].ev.call_status = "invalid-status"
        /\ tasks[u].pc = "done"
        /\ Len(calls) = 1
----------------------------------------------------------------------------
(* Outcome of a request *)

\* C31: every request that passed validation is answered, once: it reaches
\* either its success result, whose call_id is the event's and whose
\* business_id is that of the business its to_number resolves to, or its
\* failure; the answer is final, and on the way no step is taken twice.
C31_OneOutcome ==
    /\ \A t \in 1..MaxDeliveries :
          [](tasks[t].pc = "resolve" => <>(tasks[t].pc \in {"done", "failed"}))
    /\ [][\A t \in Slots :
            /\ tasks'[t] # tasks[t] => Position(tasks'[t].pc) > Position(tasks[t].pc)
            /\ tasks'[t].pc = "done" =>
                  /\ Result(tasks'[t]).call_id = tasks'[t].ev.call_id
                  /\ \E b \in businesses :
                        /\ b.id = Result(tasks'[t]).business_id
                        /\ b.phone_number = normalizePhoneNumber(tasks'[t].ev.to_number)]_vars

C31_Witness ==
    \E t \in Slots, u \in Slots :
        /\ tasks[t].pc = "done"
        /\ tasks[u].pc = "failed"
        /\ Result(tasks[t]).call_id = "c1"
        /\ Result(tasks[t]).business_id = "b1"

\* C32: the existence check of createOrUpdateCall and the write that follows
\* it are one step for the other requests of the same call_id: at the write
\* the record exists exactly when the check found it, and the write does
\* not fail.
C32_SerializedPerCallId ==
    [][\A t \in Slots :
          (tasks[t].pc = "write" /\ Stepped(t)) =>
              /\ (tasks[t].existingCall = Null)
                    <=> (CallRowsIn(calls, tasks[t].ev.call_id) = {})
              /\ tasks'[t].pc # "failed"]_vars
----------------------------------------------------------------------------
(* Record status *)

\* the values of calls.call_status
Statuses == {"in-progress", "completed", "failed"}

\* C35: in every reachable state the status of every call record is one of
\* in-progress, completed, failed, also when the record was written by a
\* Legacy event that carries neither event_type nor call_status.
C35_StatusInRange ==
    \A i \in DOMAIN calls : calls[i].call_status \in Statuses

\* an event without event_type and call_status created the record, which has
\* the default status, and one changed a record another event had created
C35_Witness ==
    \E t \in Slots, u \in Slots :
       /\ t # u
       /\ tasks[t].pc = "done" /\ tasks[u].pc = "done"
       /\ tasks[t].ev = BareEvent /\ tasks[u].ev = BareEvent
       /\ tasks[t].existingCall = Null /\ tasks[u].existingCall # Null
       /\ Len(calls) = 1
       /\ calls[1].call_status = "completed"

----------------------------------------------------------------------------
(* Dispatch *)

\* C34: the handler of an event is chosen by event_type alone. The record
\* step of a call_started event is createOrUpdateCall with status
\* in-progress and no notification, of a call_ended event updateCallStatus
\* to completed, of a call_analyzed event createOrUpdateCall with status
\* completed, whatever call_status the event carries; an event without
\* event_type is handled as Legacy: createOrUpdateCall with the call_status
\* of the event as status, notified when that is completed.
C34_DispatchByEventType ==
    [][\A t \in Slots :
          (tasks[t].pc \in {"write", "status"} /\ Stepped(t) /\ tasks'[t].pc # "failed") =>
             LET ev == tasks[t].ev
                 rec == tasks'[t].callRecord
             IN  CASE ev.event_type = "call_started" ->
                         /\ tasks[t].pc = "write"
                         /\ rec.call_status = "in-progress"
                         /\ tasks'[t].pc = "analytics_fetch"
                   [] ev.event_type = "call_ended" ->
                         /\ tasks[t].pc = "status"
                         /\ rec.call_status = "completed"
                         /\ tasks'[t].pc = "analytics_fetch"
                   [] ev.event_type = "call_analyzed" ->
                         /\ tasks[t].pc = "write"
                         /\ rec.call_status = "completed"
                         /\ tasks'[t].pc \in {"sms", "done"}
                   [] OTHER ->
                         /\ tasks[t].pc = "write"
                         /\ ev.call_status # Undefined => rec.call_status = ev.call_status
                         /\ tasks'[t].pc = IF ev.call_status = "completed"
                                           THEN "sms" ELSE "analytics_fetch"]_vars

\* a call_started event that says failed made an in-progress record, and a
\* Legacy event that says failed then made it failed
C34_Witness ==
    \E t \in Slots, u \in Slots :
       /\ tasks[t].pc = "done" /\ tasks[u].pc = "done"
       /\ tasks[t].ev.event_type = "call_started"
       /\ tasks[t].ev.call_status = "failed"
       /\ tasks[t].callRecord.call_status = "in-progress"
       /\ tasks[u].ev.event_type = Undefined
       /\ tasks[u].ev.call_status = "failed"
       /\ tasks[u].existingCall # Null
       /\ calls[1].call_status = "failed"

----------------------------------------------------------------------------
(* Redelivery *)

\* C33: when a delivery of an event has failed with a store error and the
\* same event, delivered again, has succeeded, the calls table is the one a
\* single successful delivery of the event leaves.
C33_RedeliverySafe ==
    (/\ delivered = 3
     /\ tasks[2].pc = "failed"
     /\ tasks[2].error \in StoreErrors
     /\ tasks[3].pc = "done")
        => calls = SingleDelivery(probe.arg, tasks[3])

\* a call_started event made the record; the update of the record by an
\* event without call_status was rejected, the event came again, and the
\* record has the status it had
C33_Witness ==
    /\ delivered = 3
    /\ tasks[1].ev.event_type = "call_started"
    /\ tasks[2].pc = "failed"
    /\ tasks[2].error = "Failed to update call"
    /\ tasks[3].pc = "done"
    /\ tasks[3].ev = BareEvent
    /\ Len(probe.arg) = 1
    /\ probe.arg[1].call_status = "in-progress"
    /\ calls = probe.arg

----------------------------------------------------------------------------
(* Analytics of events without notification *)

\* C36: the updateCallAnalytics step of a call_started or call_ended event
\* leaves successful_notifications and failed_notifications of the day's
\* row of the business as they are, a row the step creates having both at 0.
C36_NoDispatchNoOutcome ==
    [][\A t \in Slots :
          (/\ tasks[t].pc = "analytics_write"
           /\ Stepped(t)
           /\ tasks[t].ev.event_type \in {"call_started", "call_ended"}) =>
             LET b == tasks[t].business.id
             IN  /\ Counter(call_analytics', b, "successful_notifications")
                       = Counter(call_analytics, b, "successful_notifications")
                 /\ Counter(call_analytics', b, "failed_notifications")
                       = Counter(call_analytics, b, "failed_notifications")]_vars

----------------------------------------------------------------------------
(* Analytics failures *)

\* C37: a step of updateCallAnalytics, whether the analytics store answers
\* or rejects the select, the update or the insert, never fails the request
\* and leaves the calls table and the record the request holds as they are;
\* the step after the write ends the request with its success result.
C37_AnalyticsFailureNonFatal ==
    [][\A t \in Slots :
          (tasks[t].pc \in {"analytics_fetch", "analytics_write"} /\ Stepped(t)) =>
             /\ calls' = calls
             /\ tasks'[t].callRecord = tasks[t].callRecord
             /\ tasks'[t].error = Null
             /\ tasks'[t].pc = IF tasks[t].pc = "analytics_fetch"
                               THEN "analytics_write" ELSE "done"
             /\ tasks'[t].pc = "done" =>
                   /\ Result(tasks'[t]).call_id = tasks[t].ev.call_id
                   /\ \E i \in DOMAIN calls : calls[i].id = Result(tasks'[t]).call_id]_vars

\* two events were answered with success although the analytics store
\* rejected the insert of each of them: the day has no row, the call has its
\* record
C37_Witness ==
    /\ \A t \in Slots : tasks[t].pc = "done" /\ tasks[t].existingAnalytics = NoAnalytics
    /\ tasks[1].ev.event_type = "call_started"
    /\ tasks[2].ev.event_type = "call_ended"
    /\ call_analytics = <<>>
    /\ Len(calls) = 1
    /\ calls[1].call_status = "completed"

----------------------------------------------------------------------------
(* sendAllNotifications *)

\* the channels of a request whose notification failed
FailedChannels(task) ==
    {c \in {"sms", "slack"} : ~task[c].success /\ task[c].status # "skipped"}

\* C38: sendAllNotifications never raises, whatever Slack and the
\* notification log answer; when it returns, its overall success is that of
\* the SMS together with a Slack notification that succeeded or was skipped
\* for want of a slack_webhook_url, and overall.errors has one entry for each
\* channel that failed and none for a skipped Slack notification.
C38_OverallSuccess ==
    [][\A t \in Slots :
          (tasks[t].pc \in {"sms", "slack_post", "slack_log"} /\ Stepped(t)) =>
             /\ tasks'[t].pc \in {"slack_post", "slack_log", "notification_status"}
             /\ tasks'[t].error = Null
             /\ tasks'[t].pc = "notification_status" =>
                   LET done == tasks'[t]
                       skipped == done.business.slack_webhook_url = Null
                   IN  /\ skipped <=> done.slack.status = "skipped"
                       /\ done.overall <=>
                             (done.sms.success /\ (skipped \/ done.slack.success))
                       /\ Len(done.errors) = Cardinality(FailedChannels(done))
                       /\ skipped => done.errors = <<>>]_vars

\* one request was skipped by Slack and reports success without an error
\* entry, another was refused by Slack and reports failure with one entry
C38_Witness ==
    \E t \in Slots, u \in Slots :
       /\ tasks[t].pc = "notification_status"
       /\ tasks[t].slack.status = "skipped"
       /\ tasks[t].overall
       /\ tasks[t].errors = <<>>
       /\ tasks[u].pc = "notification_status"
       /\ tasks[u].slack.status = "failed"
       /\ ~tasks[u].overall
       /\ tasks[u].errors = <<"Slack">>

----------------------------------------------------------------------------
(* Retries *)

\* the calls of retryNotification that have sent
Resent == {t \in Slots : tasks[t].pc \in {"update", "done"}}

\* C39: a call of retryNotification that reads retry_count >= max_retries is
\* refused with 'Max retries exceeded' and sends nothing, any other sends
\* once and raises retry_count of the row by one; so, whatever the
\* interleaving of the calls, retry_count never exceeds max_retries, it has
\* gone up by one for each call that ran to its end, and the row was resent
\* at most max_retries times.
C39_RetriesBounded ==
    LET row == notification_logs[1]
    IN  /\ row.retry_count <= row.max_retries
        /\ \A t \in Slots :
              tasks[t].error = "Max retries exceeded" =>
                 tasks[t].pc = "failed" /\ tasks[t].result = NoResult
        /\ row.retry_count =
              probe.arg.retry_count + Cardinality({t \in Slots : tasks[t].pc = "done"})
        /\ Cardinality(Resent) <= row.max_retries

----------------------------------------------------------------------------
(* Registration and lookup *)

\* C40: while a business registered through createBusiness is active, every
\* event whose to_number has the canonical form of the phone number the
\* business was registered with is resolved to that business, in whichever
\* written form the number was registered.
C40_RegisteredIsResolved ==
    [][\A t \in Slots :
          (tasks[t].pc = "resolve" /\ Stepped(t)) =>
             \A b \in businesses :
                (/\ b.is_active
                 /\ normalizePhoneNumber(b.phone_number)
                       = normalizePhoneNumber(tasks[t].ev.to_number)) =>
                    /\ tasks'[t].pc # "failed"
                    /\ tasks'[t].business.id = b.id]_vars
====
